---- MODULE Spec2Model ----
(***************************************************************************)
(* A model of InvoiceConvert's PDF verification (src/pdf_verification.py): *)
(* the field extractor extract_invoice_info_from_pdf, the file lookup      *)
(* find_pdf_by_invoice_number and the verifier verify_excel_with_pdf.      *)
(*                                                                         *)
(* Text is a sequence of symbols.  A symbol is one character of the text,  *)
(* or one label, written without blanks between its characters:            *)
(*   "0".."9"  the digits            "COMMA" ,      "DOT" .     "PCT" %    *)
(*   "YUAN" U+00A5     "FWYUAN" U+FFE5     "COLON" the full-width colon    *)
(*   "SP" a blank      "NL" a line feed    "LP" "RP" full-width brackets   *)
(*   "ALP" "ARP" ASCII brackets            "DASH" -     "SLASH" /          *)
(*   "FPHM" fa piao hao ma (invoice number)  "FPDM" fa piao dai ma         *)
(*   "PJ" piao jia (ticket fare)     "JSHJ" jia shui he ji (total)         *)
(*   "XIAO" "XIE" the two characters of xiao xie (in figures)              *)
(*   "HE" "JI" the two characters of he ji (subtotal)                      *)
(*   "BHSJE" bu han shui jin e       "HJJE" he ji jin e                    *)
(*   "KPRQ" kai piao ri qi (issue date)   "NIAN" "YUE" "RI" year month day *)
(*   "X" any other CJK character.                                          *)
(* Numbers are counted in units of 1/109000, so that the division by 1.09  *)
(* of the ticket-fare rule and the tolerance 0.01 are exact.               *)
(***************************************************************************)
EXTENDS Integers, Sequences, FiniteSets, TLC

\* ------------------------------------------------------------ characters

Digit == {"0", "1", "2", "3", "4", "5", "6", "7", "8", "9"}

DigitValue(c) ==
    CASE c = "0" -> 0 [] c = "1" -> 1 [] c = "2" -> 2 [] c = "3" -> 3
      [] c = "4" -> 4 [] c = "5" -> 5 [] c = "6" -> 6 [] c = "7" -> 7
      [] c = "8" -> 8 [] c = "9" -> 9

\* \s of the patterns, and what str.strip() removes
Whitespace == {"SP", "NL"}

\* [¥￥] of the patterns
YuanSign == {"YUAN", "FWYUAN"}

\* [\d,] of the patterns
DigitOrComma == Digit \cup {"COMMA"}

\* \w: what \b of the tax-rate pattern takes for a word character
WordChar ==
    Digit \cup {"FPHM", "FPDM", "PJ", "JSHJ", "XIAO", "XIE", "HE", "JI",
                "BHSJE", "HJJE", "KPRQ", "NIAN", "YUE", "RI", "X"}

\* ------------------------------------------------------ regex primitives
\* A position is an index into the text; Len(s) + 1 is its end.  A matcher
\* returns the position after the match, or 0 when there is no match.

\* the least of a set of positions, 0 when the set is empty
FirstHit(hits) == IF hits = {} THEN 0 ELSE CHOOSE p \in hits : \A q \in hits : p <= q

\* the leftmost match: found[p] is what the pattern gives at position p,
\* none where it does not match
FirstOf(found, none) ==
    LET p == FirstHit({q \in DOMAIN found : found[q] # none})
    IN  IF p = 0 THEN none ELSE found[p]

\* the end of the longest run of characters of class  cls  from position i
SkipClass(s, i, cls) ==
    IF i > Len(s) THEN i
    ELSE FirstHit({p \in i..(Len(s) + 1) : p > Len(s) \/ s[p] \notin cls})

\* the end of the longest run of characters outside  cls  from position i
SkipUntil(s, i, cls) ==
    IF i > Len(s) THEN i
    ELSE FirstHit({p \in i..(Len(s) + 1) : p > Len(s) \/ s[p] \in cls})

\* \s*
SkipWs(s, i) == SkipClass(s, i, Whitespace)

\* one character of class cls at position i
OneOf(s, i, cls) == IF i <= Len(s) /\ s[i] \in cls THEN i + 1 ELSE 0

\* an optional character of class cls at position i
Opt(s, i, cls) == IF i <= Len(s) /\ s[i] \in cls THEN i + 1 ELSE i

\* ([\d,]+\.?\d*) at position i: greedy
NumEnd(s, i) ==
    IF i > Len(s) \/ s[i] \notin DigitOrComma THEN 0
    ELSE LET j == SkipClass(s, i, DigitOrComma)
         IN  IF j <= Len(s) /\ s[j] = "DOT" THEN SkipClass(s, j + 1, Digit)
             ELSE j

\* the first position >= i where the label (a sequence of symbols) starts
FindSeq(s, i, label) ==
    FirstHit({p \in i..(Len(s) - Len(label) + 1) :
                 SubSeq(s, p, p + Len(label) - 1) = label})

\* Python's  label in s
Contains(s, label) == FindSeq(s, 1, label) # 0

\* str.strip()
RECURSIVE LastNonWs(_, _)
LastNonWs(s, j) == IF j >= 1 /\ s[j] \in Whitespace THEN LastNonWs(s, j - 1) ELSE j

Strip(s) == SubSeq(s, SkipWs(s, 1), LastNonWs(s, Len(s)))

\* sep.join(parts)
RECURSIVE Join(_, _)
Join(parts, sep) ==
    IF parts = <<>> THEN <<>>
    ELSE IF Len(parts) = 1 THEN parts[1]
    ELSE parts[1] \o <<sep>> \o Join(Tail(parts), sep)

\* ------------------------------------------------------------ the file
\* A PDF file is what pdfplumber makes of it: whether it can be opened, and
\* the lines of its pages' layout text.  An item is a line (<<>> is a blank
\* line) or PageBreak, the end of a page.

PageBreak == <<"PAGEBREAK">>

\* pdf.pages: the lines of each page
RECURSIVE SplitPages(_, _)
SplitPages(items, page) ==
    IF items = <<>> THEN <<page>>
    ELSE IF Head(items) = PageBreak THEN <<page>> \o SplitPages(Tail(items), <<>>)
    ELSE SplitPages(Tail(items), Append(page, Head(items)))

\* page.extract_text(layout=True)
PageText(page) == Join(page, "NL")

\* str.split('\n')
SplitLines(s, line) ==
    LET newlines == {p \in 1..Len(s) : s[p] = "NL"}
        count == Cardinality(newlines)
        cut == [k \in 0..(count + 1) |->
                  IF k = 0 THEN 0
                  ELSE IF k > count THEN Len(s) + 1
                  ELSE CHOOSE p \in newlines :
                           Cardinality({q \in newlines : q < p}) = k - 1]
    IN  [k \in 1..(count + 1) |->
           (IF k = 1 THEN line ELSE <<>>) \o SubSeq(s, cut[k - 1] + 1, cut[k] - 1)]

\* the block of the lines gathered so far, appended when it is not empty
FlushBlock(blocks, current_block) ==
    IF current_block = <<>> THEN blocks
    ELSE LET block_text == Strip(Join(current_block, "SP"))
         IN  IF block_text # <<>> THEN Append(blocks, block_text) ELSE blocks

\* the blocks of one page's lines: a blank line ends a block
RECURSIVE BuildBlocks(_, _, _)
BuildBlocks(lines, current_block, blocks) ==
    IF lines = <<>> THEN FlushBlock(blocks, current_block)
    ELSE LET line == Strip(Head(lines))
         IN  IF line # <<>>
             THEN BuildBlocks(Tail(lines), Append(current_block, line), blocks)
             ELSE BuildBlocks(Tail(lines), <<>>, FlushBlock(blocks, current_block))

\* text_blocks after the loop over the pages
RECURSIVE PagesBlocks(_)
PagesBlocks(pages) ==
    IF pages = <<>> THEN <<>>
    ELSE LET page_text == PageText(Head(pages))
         IN  (IF page_text # <<>>
              THEN BuildBlocks(SplitLines(Strip(page_text), <<>>), <<>>, <<>>)
              ELSE <<>>) \o PagesBlocks(Tail(pages))

\* full_text after the loop over the pages, trimmed
RECURSIVE PagesText(_)
PagesText(pages) ==
    IF pages = <<>> THEN <<>>
    ELSE LET page_text == PageText(Head(pages))
         IN  (IF page_text # <<>> THEN Strip(page_text) \o <<"NL">> ELSE <<>>)
             \o PagesText(Tail(pages))

FullText(items) == Strip(PagesText(SplitPages(items, <<>>)))

TextBlocks(items) == PagesBlocks(SplitPages(items, <<>>))

\* comprehensive_text, or full_text when there is none
ComprehensiveText(blocks, full_text) ==
    LET comprehensive_text == Strip(Join(blocks, "NL"))
    IN  IF comprehensive_text = <<>> THEN full_text ELSE comprehensive_text

\* search_text
SearchText(blocks, full_text) ==
    LET comprehensive_text == ComprehensiveText(blocks, full_text)
    IN  Strip(IF comprehensive_text # <<>> THEN comprehensive_text ELSE full_text)

\* --------------------------------------------------------------- search
\* A pattern is modelled by what it captures when it is matched at one start
\* position: the captured text, or NoMatch.  Every capture of the patterns
\* below holds at least one character.

NoMatch == <<>>

\* the match a when there is one, else b
OrElse(a, b) == IF a # NoMatch THEN a ELSE b

\* s[i..j-1]
Slice(s, i, j) == SubSeq(s, i, j - 1)

\* the number of digits from position i
DigitRun(s, i) == SkipClass(s, i, Digit) - i

\* [：:\s]+ and [：:\s]*
ColonOrWs == {"COLON"} \cup Whitespace

\* ------------------------------------------------- invoice number patterns
MinInvoiceDigits == 8
MaxInvoiceDigits == 25
MinCodeDigits == 10
MaxCodeDigits == 12

\* a variant: (\d{8,20}), the first 20 digits at most
CaptureInvoiceDigitsUpTo20(s, i) ==
    LET n == DigitRun(s, i)
    IN  IF n < MinInvoiceDigits THEN NoMatch
        ELSE IF n > 20 THEN Slice(s, i, i + 20)
        ELSE Slice(s, i, i + n)

\* (\d{8,25}) at position i: at least 8 digits, and the first 25 at most
CaptureInvoiceDigits(s, i) ==
    LET n == DigitRun(s, i)
    IN  IF n < MinInvoiceDigits THEN NoMatch
        ELSE IF n > MaxInvoiceDigits THEN Slice(s, i, i + MaxInvoiceDigits)
        ELSE Slice(s, i, i + n)

\* (\d+) at position i
CaptureDigits(s, i) == Slice(s, i, i + DigitRun(s, i))

\* the position after  label [：:] \s*  matched at i, or 0
AfterLabelColon(s, i, label) ==
    IF i <= Len(s) /\ s[i] = label /\ OneOf(s, i + 1, {"COLON"}) # 0
    THEN SkipWs(s, i + 2) ELSE 0

\* the position after  label [：:\s]+  matched at i, or 0
AfterLabelSep(s, i, label) ==
    IF i <= Len(s) /\ s[i] = label /\ OneOf(s, i + 1, ColonOrWs) # 0
    THEN SkipClass(s, i + 1, ColonOrWs) ELSE 0

\* the position after  label [：:\s]*  matched at i, or 0
AfterLabelOptSep(s, i, label) ==
    IF i <= Len(s) /\ s[i] = label THEN SkipClass(s, i + 1, ColonOrWs) ELSE 0

\* fa piao hao ma [：:] \s* (\d{8,25})
InvoiceNumber1(s, i) ==
    LET j == AfterLabelColon(s, i, "FPHM")
    IN  IF j = 0 THEN NoMatch ELSE CaptureInvoiceDigits(s, j)

\* fa piao hao ma [：:\s]+ (\d{8,25})
InvoiceNumber2(s, i) ==
    LET j == AfterLabelSep(s, i, "FPHM")
    IN  IF j = 0 THEN NoMatch ELSE CaptureInvoiceDigits(s, j)

\* fa piao hao ma [：:] \s* (\d+)
InvoiceNumber3(s, i) ==
    LET j == AfterLabelColon(s, i, "FPHM")
    IN  IF j = 0 THEN NoMatch ELSE CaptureDigits(s, j)

\* fa piao hao ma [：:\s]+ (\d+)
InvoiceNumber4(s, i) ==
    LET j == AfterLabelSep(s, i, "FPHM")
    IN  IF j = 0 THEN NoMatch ELSE CaptureDigits(s, j)

\* fa piao dai ma [：:\s]+ (\d{10,12}) [^\d]* fa piao hao ma [：:\s]+ (\d{8,25}):
\* the code is a run of 10 to 12 digits, the number's label stands in the
\* digit-free text after it, and groups()[-1] is the number
InvoiceNumber5(s, i) ==
    LET j == AfterLabelSep(s, i, "FPDM")
        n == DigitRun(s, j)
        k == j + n
        e == SkipUntil(s, k, Digit)
        at == {q \in k..(e - 1) : InvoiceNumber2(s, q) # NoMatch}
    IN  IF j = 0 \/ n < MinCodeDigits \/ n > MaxCodeDigits \/ at = {} THEN NoMatch
        ELSE InvoiceNumber2(s, CHOOSE q \in at : \A r \in at : r <= q)

NumInvoiceNumberPatterns == 5

\* patterns_invoice_number[k] matched at position i
InvoiceNumberAt(k, s, i) ==
    CASE k = 1 -> InvoiceNumber1(s, i)
      [] k = 2 -> InvoiceNumber2(s, i)
      [] k = 3 -> InvoiceNumber3(s, i)
      [] k = 4 -> InvoiceNumber4(s, i)
      [] k = 5 -> InvoiceNumber5(s, i)

\* re.search(patterns_invoice_number[k], s): the leftmost match's last group
SearchInvoiceNumberFrom(k, s, i) ==
    FirstOf([p \in i..Len(s) |-> InvoiceNumberAt(k, s, p)], NoMatch)

SearchInvoiceNumber(k, s) == SearchInvoiceNumberFrom(k, s, 1)

\* the first pattern of the list that matches s, tried in order
RECURSIVE FirstInvoiceNumberPattern(_, _)
FirstInvoiceNumberPattern(k, s) ==
    IF k > NumInvoiceNumberPatterns THEN NoMatch
    ELSE IF SearchInvoiceNumber(k, s) # NoMatch THEN SearchInvoiceNumber(k, s)
    ELSE FirstInvoiceNumberPattern(k + 1, s)

\* the first block, in document order, that a pattern matches
RECURSIVE InvoiceNumberFromBlocks(_)
InvoiceNumberFromBlocks(blocks) ==
    IF blocks = <<>> THEN NoMatch
    ELSE IF FirstInvoiceNumberPattern(1, Head(blocks)) # NoMatch
         THEN FirstInvoiceNumberPattern(1, Head(blocks))
    ELSE InvoiceNumberFromBlocks(Tail(blocks))

\* a variant: each pattern is tried on every block before the next pattern
RECURSIVE InvoiceNumberByPattern(_, _)
InvoiceNumberByPattern(k, blocks) ==
    IF k > NumInvoiceNumberPatterns THEN NoMatch
    ELSE LET caps == [n \in 1..Len(blocks) |-> SearchInvoiceNumber(k, blocks[n])]
         IN  IF FirstOf(caps, NoMatch) # NoMatch THEN FirstOf(caps, NoMatch)
             ELSE InvoiceNumberByPattern(k + 1, blocks)

FindInvoiceNumberByPattern(blocks, search_text) ==
    IF InvoiceNumberByPattern(1, blocks) # NoMatch
    THEN InvoiceNumberByPattern(1, blocks)
    ELSE FirstInvoiceNumberPattern(1, search_text)

\* the invoice number: the blocks first, then search_text; NoMatch is missing
FindInvoiceNumber(blocks, search_text) ==
    IF InvoiceNumberFromBlocks(blocks) # NoMatch
    THEN InvoiceNumberFromBlocks(blocks)
    ELSE FirstInvoiceNumberPattern(1, search_text)

\* -------------------------------------------------------------- numbers
\* A number is an integer count of units of 1/109000: a thousandth is 109
\* units, and x / 1.09 is x * 100 / 109, which is whole for every x read
\* from text with at most three decimals (a multiple of Milli).

Milli == 109
One == 1000 * Milli

\* float('nan'): below every number a text can hold
NaN == -1

\* A number of five or more integer digits: it stands above every number
\* the model computes with, and stays there through the arithmetic below.
Huge == 2 * (10 ^ 9)
HugeFrom == 10 ^ 4

\* amount_str: the captured text with its thousands separators removed
\* (.replace(',', ''); the capture holds no full-width comma and no blank)
RECURSIVE RemoveCommas(_)
RemoveCommas(cap) ==
    IF cap = <<>> THEN <<>>
    ELSE IF Head(cap) = "COMMA" THEN RemoveCommas(Tail(cap))
    ELSE <<Head(cap)>> \o RemoveCommas(Tail(cap))

\* the integer a digit string writes, Huge from five significant digits on
RECURSIVE DigitsValue(_, _)
DigitsValue(ds, acc) ==
    IF ds = <<>> THEN acc
    ELSE IF acc = Huge \/ 10 * acc + DigitValue(Head(ds)) >= HugeFrom THEN Huge
    ELSE DigitsValue(Tail(ds), 10 * acc + DigitValue(Head(ds)))

\* the first three decimals of a digit string, in thousandths
FractionMilli(ds) ==
    (IF Len(ds) >= 1 THEN 100 * DigitValue(ds[1]) ELSE 0)
    + (IF Len(ds) >= 2 THEN 10 * DigitValue(ds[2]) ELSE 0)
    + (IF Len(ds) >= 3 THEN DigitValue(ds[3]) ELSE 0)

\* float(amount_str) raises ValueError: the text holds no digit
RaisesValueError(amount_str) == \A k \in 1..Len(amount_str) : amount_str[k] \notin Digit

\* float(amount_str), for a text of digits with at most one point
ParseFloat(amount_str) ==
    LET dot == FindSeq(amount_str, 1, <<"DOT">>)
        whole == IF dot = 0 THEN amount_str ELSE SubSeq(amount_str, 1, dot - 1)
        frac == IF dot = 0 THEN <<>> ELSE SubSeq(amount_str, dot + 1, Len(amount_str))
        w == DigitsValue(whole, 0)
    IN  IF w = Huge THEN Huge ELSE w * One + FractionMilli(frac) * Milli

\* a variant: amount_value * 0.91
TimesPoint91(x) == IF x = Huge THEN Huge ELSE (x \div 100) * 91

\* amount_value / 1.09
DivideBy109(x) == IF x = Huge THEN Huge ELSE (x \div Milli) * 100

\* a - b, for b <= a
Minus(a, b) == IF a = Huge THEN Huge ELSE a - b

\* a variant: a - b, without abs
Difference(a, b) == IF a = Huge \/ b = Huge THEN Huge ELSE a - b

\* abs(a - b)
AbsDiff(a, b) ==
    IF a = Huge \/ b = Huge THEN Huge
    ELSE IF a >= b THEN a - b ELSE b - a

\* ------------------------------------------------ invoice amount patterns

\* ([\d,]+\.?\d*) captured at position i
CaptureNum(s, i) == IF NumEnd(s, i) = 0 THEN NoMatch ELSE Slice(s, i, NumEnd(s, i))

\* \s+ [¥￥]? \s* ([\d,]+\.?\d*)  at position i
TailWsYuanOpt(s, i) ==
    IF OneOf(s, i, Whitespace) = 0 THEN NoMatch
    ELSE CaptureNum(s, SkipWs(s, Opt(s, SkipWs(s, i), YuanSign)))

\* \s* [¥￥] \s* ([\d,]+\.?\d*)  at position i
TailYuan(s, i) ==
    LET j == OneOf(s, SkipWs(s, i), YuanSign)
    IN  IF j = 0 THEN NoMatch ELSE CaptureNum(s, SkipWs(s, j))

\* [：:\s]* [¥￥]? \s* ([\d,]+\.?\d*)  at position i
TailSepYuanOpt(s, i) ==
    CaptureNum(s, SkipWs(s, Opt(s, SkipClass(s, i, ColonOrWs), YuanSign)))

\* [^\d]*? ([\d,]+\.?\d*)  at position i: the capture starts at the first
\* digit or comma
TailLazy(s, i) == CaptureNum(s, SkipUntil(s, i, DigitOrComma))

\* the position after  xiao \s+ xie ("plus"), xiao xie ("none") or
\* xiao \s* xie ("star")  matched at i, or 0
AfterXiaoXie(s, i, gap) ==
    IF i > Len(s) \/ s[i] # "XIAO" THEN 0
    ELSE LET j == SkipWs(s, i + 1)
         IN  IF j > Len(s) \/ s[j] # "XIE" THEN 0
             ELSE IF gap = "plus" /\ j = i + 1 THEN 0
             ELSE IF gap = "none" /\ j # i + 1 THEN 0
             ELSE j + 1

\* the position after  （ \s* xiao..xie \s* ）  matched at i, or 0
AfterBracketed(s, i, gap) ==
    IF OneOf(s, i, {"LP"}) = 0 THEN 0
    ELSE LET j == AfterXiaoXie(s, SkipWs(s, i + 1), gap)
         IN  IF j = 0 THEN 0 ELSE OneOf(s, SkipWs(s, j), {"RP"})

\* the position after  xiao..xie \s* [）)]  matched at i, or 0
AfterClosed(s, i, gap) ==
    LET j == AfterXiaoXie(s, i, gap)
    IN  IF j = 0 THEN 0 ELSE OneOf(s, SkipWs(s, j), {"RP", "ARP"})

\* the position after  jia shui he ji [（(] \s* xiao..xie \s* [）)]  at i, or 0
AfterTotalBracketed(s, i, gap) ==
    IF i > Len(s) \/ s[i] # "JSHJ" \/ OneOf(s, i + 1, {"LP", "ALP"}) = 0 THEN 0
    ELSE AfterClosed(s, SkipWs(s, i + 2), gap)

NumAmountPatterns == 11

\* the position after the label of patterns_amount[k] matched at i, or 0
AmountLabelAt(k, s, i) ==
    CASE k \in {1, 10} -> AfterBracketed(s, i, "plus")
      [] k \in {2, 4, 11} -> AfterBracketed(s, i, "none")
      [] k = 3 -> AfterBracketed(s, i, "star")
      [] k = 5 -> AfterClosed(s, i, "plus")
      [] k = 6 -> AfterClosed(s, i, "none")
      [] k = 7 -> AfterTotalBracketed(s, i, "plus")
      [] k = 8 -> AfterTotalBracketed(s, i, "none")
      [] k = 9 -> IF s[i] = "JSHJ" THEN i + 1 ELSE 0

\* the figure of patterns_amount[k] from the position after its label
AmountFigureAt(k, s, after) ==
    IF after = 0 THEN NoMatch
    ELSE CASE k \in {1, 2, 5, 6} -> TailWsYuanOpt(s, after)
           [] k \in {3, 4} -> TailYuan(s, after)
           [] k \in {7, 8, 9} -> TailSepYuanOpt(s, after)
           [] k \in {10, 11} -> TailLazy(s, after)

\* patterns_amount[k] matched at position i
AmountAt(k, s, i) == AmountFigureAt(k, s, AmountLabelAt(k, s, i))

\* pattern_piao_jia matched at position i:
\* piao jia [：:] \s* [¥￥]? \s* ([\d,]+\.?\d*)
PiaoJiaAt(s, i) ==
    LET j == AfterLabelColon(s, i, "PJ")
    IN  IF j = 0 THEN NoMatch ELSE CaptureNum(s, SkipWs(s, Opt(s, j, YuanSign)))

\* re.search(pattern_piao_jia, s)
SearchPiaoJiaFrom(s, i) ==
    FirstOf([p \in i..Len(s) |-> PiaoJiaAt(s, p)], NoMatch)

\* re.search(patterns_amount[k], s)
SearchAmountFrom(k, s, i) ==
    FirstOf([p \in i..Len(s) |-> AmountAt(k, s, p)], NoMatch)

\* a capture that float() converts
Converts(cap) == cap # NoMatch /\ ~RaisesValueError(RemoveCommas(cap))

\* a variant: the match a whether or not float() converts it
MatchedOrElse(a, b) == IF a # NoMatch THEN a ELSE b

\* the match a when float() converts it, else b (except ValueError: continue)
ConvertedOrElse(a, b) == IF Converts(a) THEN a ELSE b

\* the piao jia scan: the capture of the first block that holds the label,
\* matches the pattern and converts; a ValueError goes on to the next block
RECURSIVE PiaoJiaFromBlocks(_)
PiaoJiaFromBlocks(blocks) ==
    IF blocks = <<>> THEN NoMatch
    ELSE IF ~Contains(Head(blocks), <<"PJ">>) THEN PiaoJiaFromBlocks(Tail(blocks))
    ELSE ConvertedOrElse(SearchPiaoJiaFrom(Head(blocks), 1),
                         PiaoJiaFromBlocks(Tail(blocks)))

\* the first pattern from k on whose leftmost match in s converts
RECURSIVE FirstAmountPattern(_, _)
FirstAmountPattern(k, s) ==
    IF k > NumAmountPatterns THEN NoMatch
    ELSE ConvertedOrElse(SearchAmountFrom(k, s, 1), FirstAmountPattern(k + 1, s))

\* the patterns are tried on the blocks that hold both jia shui he ji and
\* xiao xie
RECURSIVE AmountFromBlocks(_)
AmountFromBlocks(blocks) ==
    IF blocks = <<>> THEN NoMatch
    ELSE LET has_jia_shui == Contains(Head(blocks), <<"JSHJ">>)
             has_xiao_xie == Contains(Head(blocks), <<"XIAO", "XIE">>)
         IN  IF has_jia_shui /\ has_xiao_xie
             THEN OrElse(FirstAmountPattern(1, Head(blocks)),
                         AmountFromBlocks(Tail(blocks)))
             ELSE AmountFromBlocks(Tail(blocks))

\* a variant: when no pattern matches, the first number of search_text
FindInvoiceAmountOrFirstNumber(blocks, search_text) ==
    OrElse(AmountFromBlocks(blocks),
           OrElse(FirstAmountPattern(1, search_text), TailLazy(search_text, 1)))

\* the capture of the invoice amount when the piao jia scan found none: the
\* blocks first, then search_text; NoMatch is missing
FindInvoiceAmount(blocks, search_text) ==
    OrElse(AmountFromBlocks(blocks), FirstAmountPattern(1, search_text))

\* ------------------------------------------------------ tax rate pattern

\* \b(\d+\.?\d*)%  matched at position i: a digit that no word character
\* precedes starts it, and the percent sign follows the number at once
TaxRateAt(s, i) ==
    IF s[i] \notin Digit \/ (i > 1 /\ s[i - 1] \in WordChar) THEN NoMatch
    ELSE LET j == SkipClass(s, i, Digit)
             e == IF j <= Len(s) /\ s[j] = "DOT" THEN SkipClass(s, j + 1, Digit) ELSE j
         IN  IF e <= Len(s) /\ s[e] = "PCT" THEN Slice(s, i, e) ELSE NoMatch

MaxTaxRate == 100

\* a variant: every rate is taken
RateOfAnyValue(cap) == TRUE

\* 0 <= rate_value <= 100
RateInRange(cap) == ParseFloat(cap) # Huge /\ ParseFloat(cap) <= MaxTaxRate * One

\* re.findall(pattern, s), read from position i on: the first capture whose
\* value lies in the range, NoMatch when there is none
RECURSIVE FirstRateInRange(_, _)
FirstRateInRange(s, i) ==
    LET caps == [p \in i..Len(s) |-> TaxRateAt(s, p)]
        at == FirstHit({p \in DOMAIN caps : caps[p] # NoMatch})
    IN  IF at = 0 THEN NoMatch
        ELSE IF RateInRange(caps[at]) THEN caps[at]
        ELSE FirstRateInRange(s, at + Len(caps[at]) + 1)

\* the blocks that hold a percent sign, in document order
RECURSIVE TaxRateFromBlocks(_)
TaxRateFromBlocks(blocks) ==
    IF blocks = <<>> THEN NoMatch
    ELSE LET cap == FirstRateInRange(Head(blocks), 1)
         IN  IF Contains(Head(blocks), <<"PCT">>) /\ cap # NoMatch THEN cap
             ELSE TaxRateFromBlocks(Tail(blocks))

\* the capture of the tax rate: the blocks first, then search_text; NoMatch
\* leaves the rate to its default
FindTaxRate(blocks, search_text) ==
    IF TaxRateFromBlocks(blocks) # NoMatch THEN TaxRateFromBlocks(blocks)
    ELSE FirstRateInRange(search_text, 1)

\* -------------------------------------------- amount excluding tax, tax amount

\* the position after  he \s+ ji  matched at i, or 0
AfterHeJiAt(s, i) ==
    LET j == SkipWs(s, i + 1)
    IN  IF s[i] = "HE" /\ j > i + 1 /\ j <= Len(s) /\ s[j] = "JI" THEN j + 1 ELSE 0

\* the position after the first  he \s+ ji  of s, or 0
AfterHeJiFrom(s, i) ==
    FirstOf([p \in i..Len(s) |-> AfterHeJiAt(s, p)], 0)

AfterHeJi(s) == AfterHeJiFrom(s, 1)

\* relevant_text: the block after he ji, up to jia shui he ji when that
\* label starts after it
RelevantText(block) ==
    LET start_pos == AfterHeJi(block)
        jia_shui == FindSeq(block, 1, <<"JSHJ">>)
    IN  IF jia_shui # 0 /\ jia_shui > start_pos
        THEN Slice(block, start_pos, jia_shui)
        ELSE Slice(block, start_pos, Len(block) + 1)

\* [¥￥][\s]*([\d,]+\.?\d*)  matched at position i
YuanAmountAt(s, i) ==
    IF s[i] \notin YuanSign THEN NoMatch ELSE CaptureNum(s, SkipWs(s, i + 1))

\* [¥￥][^\d]*?([\d,]+\.?\d*)  matched at position i
YuanLazyAmountAt(s, i) ==
    IF s[i] \notin YuanSign THEN NoMatch ELSE TailLazy(s, i + 1)

\* the first match of  [¥￥][\s]*([\d,]+\.?\d*)  in s from position i on
SearchYuanAmountFrom(s, i) ==
    FirstOf([p \in i..Len(s) |-> YuanAmountAt(s, p)], NoMatch)

\* the first match of  [¥￥][^\d]*?([\d,]+\.?\d*)  in s from position i on
SearchYuanLazyFrom(s, i) ==
    FirstOf([p \in i..Len(s) |-> YuanLazyAmountAt(s, p)], NoMatch)

\* amounts[0]: the first capture of re.findall over relevant_text, by the
\* strict pattern, and by the lazy one when the strict one finds nothing
FirstAmount(relevant_text) ==
    IF SearchYuanAmountFrom(relevant_text, 1) # NoMatch
    THEN SearchYuanAmountFrom(relevant_text, 1)
    ELSE SearchYuanLazyFrom(relevant_text, 1)

\* patterns_excl_tax[k] matched at position i
NumExclTaxPatterns == 3

ExclTaxAt(k, s, i) ==
    CASE k = 1 ->
           \* he \s+ ji [^¥￥]*? [¥￥] \s* ([\d,]+\.?\d*): the first currency
           \* sign after the label, and the number right after it
           (LET j == AfterHeJiAt(s, i)
                y == SkipUntil(s, j, YuanSign)
            IN  IF j = 0 \/ y > Len(s) THEN NoMatch
                ELSE CaptureNum(s, SkipWs(s, y + 1)))
      [] k = 2 -> (IF s[i] # "BHSJE" THEN NoMatch ELSE TailSepYuanOpt(s, i + 1))
      [] k = 3 -> (IF s[i] # "HJJE" THEN NoMatch ELSE TailSepYuanOpt(s, i + 1))

\* re.search(patterns_excl_tax[k], s)
SearchExclTaxFrom(k, s, i) ==
    FirstOf([p \in i..Len(s) |-> ExclTaxAt(k, s, p)], NoMatch)

\* the first pattern from k on whose leftmost match in s converts
RECURSIVE FirstExclTaxPattern(_, _)
FirstExclTaxPattern(k, s) ==
    IF k > NumExclTaxPatterns THEN NoMatch
    ELSE LET match == SearchExclTaxFrom(k, s, 1)
         IN  IF Converts(match) THEN match ELSE FirstExclTaxPattern(k + 1, s)

\* has_he_ji and has_yuan
IsSubtotalBlock(block) == AfterHeJi(block) # 0 /\ Contains(block, <<"YUAN">>)

\* what one subtotal block gives for the amount excluding tax: amounts[0]
\* when it converts, else the first pattern that matches and converts
ExclTaxOfBlock(block) ==
    LET first == FirstAmount(RelevantText(block))
    IN  IF Converts(first) THEN first ELSE FirstExclTaxPattern(1, block)

RECURSIVE ExclTaxFromBlocks(_)
ExclTaxFromBlocks(blocks) ==
    IF blocks = <<>> THEN NoMatch
    ELSE IF IsSubtotalBlock(Head(blocks)) /\ ExclTaxOfBlock(Head(blocks)) # NoMatch
         THEN ExclTaxOfBlock(Head(blocks))
    ELSE ExclTaxFromBlocks(Tail(blocks))

\* the capture of the amount excluding tax: the blocks first, then
\* search_text; NoMatch is missing
FindExclTax(blocks, search_text) ==
    IF ExclTaxFromBlocks(blocks) # NoMatch THEN ExclTaxFromBlocks(blocks)
    ELSE FirstExclTaxPattern(1, search_text)

\* yuan_matches: the positions of the currency signs of relevant_text
YuanPositions(relevant_text) ==
    {i \in 1..Len(relevant_text) : relevant_text[i] \in YuanSign}

\* yuan_matches[1].start(): the second currency sign, or 0
SecondYuan(relevant_text) ==
    LET ys == YuanPositions(relevant_text)
    IN  IF Cardinality(ys) < 2 THEN 0
        ELSE CHOOSE p \in ys : Cardinality({q \in ys : q < p}) = 1

\* what one subtotal block gives for the tax amount: the first amount found
\* from the second currency sign on, when it converts
TaxAmountOfBlock(block) ==
    LET relevant_text == RelevantText(block)
        second_yuan_pos == SecondYuan(relevant_text)
        amount_match == SearchYuanAmountFrom(relevant_text, second_yuan_pos)
    IN  IF second_yuan_pos # 0 /\ Converts(amount_match) THEN amount_match
        ELSE NoMatch

\* the capture of the tax amount, from the first subtotal block that gives
\* one; NoMatch leaves the tax amount to its default
RECURSIVE FindTaxAmount(_)
FindTaxAmount(blocks) ==
    IF blocks = <<>> THEN NoMatch
    ELSE IF IsSubtotalBlock(Head(blocks)) /\ TaxAmountOfBlock(Head(blocks)) # NoMatch
         THEN TaxAmountOfBlock(Head(blocks))
    ELSE FindTaxAmount(Tail(blocks))

\* -------------------------------------------------------- date patterns
YearDigits == 4
MaxDayDigits == 2

\* str.zfill(2)
ZFill2(ds) == IF Len(ds) < 2 THEN <<"0">> \o ds ELSE ds

\* f"{year}-{month.zfill(2)}-{day.zfill(2)}"
DateStr(year, month, day) == year \o <<"DASH">> \o ZFill2(month) \o <<"DASH">> \o ZFill2(day)

\* (\d{4}) sep1 (\d{1,2}) sep2 (\d{1,2}) at position i, then the closing
\* character when  closing  is "must", as the date string; the day takes two
\* digits at most, and must end its run only when a closing character follows
DateBody(s, i, sep1, sep2, closing) ==
    LET ny == DigitRun(s, i)
        m == i + ny + 1
        nm == DigitRun(s, m)
        d == m + nm + 1
        run == DigitRun(s, d)
        nd == IF run > MaxDayDigits THEN MaxDayDigits ELSE run
    IN  IF ny # YearDigits \/ OneOf(s, i + ny, sep1) = 0 THEN NoMatch
        ELSE IF nm < 1 \/ nm > MaxDayDigits \/ OneOf(s, m + nm, sep2) = 0 THEN NoMatch
        ELSE IF run < 1 THEN NoMatch
        ELSE IF closing = "must" /\ OneOf(s, d + nd, {"RI"}) = 0 THEN NoMatch
        ELSE DateStr(Slice(s, i, i + ny), Slice(s, m, m + nm), Slice(s, d, d + nd))

NumDatePatterns == 3

\* patterns_date[k] matched at position i
DateAt(k, s, i) ==
    CASE k = 1 ->
           \* kai piao ri qi [：:] \s* (\d{4}) nian (\d{1,2}) yue (\d{1,2}) ri
           (IF AfterLabelColon(s, i, "KPRQ") = 0 THEN NoMatch
            ELSE DateBody(s, AfterLabelColon(s, i, "KPRQ"), {"NIAN"}, {"YUE"}, "must"))
      [] k = 2 ->
           \* kai piao ri qi [：:\s]* (\d{4}) [-nian] (\d{1,2}) [-yue] (\d{1,2}) [ri]?
           (IF s[i] # "KPRQ" THEN NoMatch
            ELSE DateBody(s, AfterLabelOptSep(s, i, "KPRQ"),
                          {"DASH", "NIAN"}, {"DASH", "YUE"}, "may"))
      [] k = 3 ->
           \* kai piao ri qi [：:\s]* (\d{4}) / (\d{1,2}) / (\d{1,2})
           (IF s[i] # "KPRQ" THEN NoMatch
            ELSE DateBody(s, AfterLabelOptSep(s, i, "KPRQ"),
                          {"SLASH"}, {"SLASH"}, "may"))

\* re.search(patterns_date[k], s)
SearchDateFrom(k, s, i) ==
    FirstOf([p \in i..Len(s) |-> DateAt(k, s, p)], NoMatch)

RECURSIVE FirstDatePattern(_, _)
FirstDatePattern(k, s) ==
    IF k > NumDatePatterns THEN NoMatch
    ELSE IF SearchDateFrom(k, s, 1) # NoMatch THEN SearchDateFrom(k, s, 1)
    ELSE FirstDatePattern(k + 1, s)

RECURSIVE DateFromBlocks(_)
DateFromBlocks(blocks) ==
    IF blocks = <<>> THEN NoMatch
    ELSE IF FirstDatePattern(1, Head(blocks)) # NoMatch
         THEN FirstDatePattern(1, Head(blocks))
    ELSE DateFromBlocks(Tail(blocks))

\* the invoice date: the blocks first, then search_text; NoMatch is missing
FindInvoiceDate(blocks, search_text) ==
    IF DateFromBlocks(blocks) # NoMatch THEN DateFromBlocks(blocks)
    ELSE FirstDatePattern(1, search_text)

\* ---------------------------------------------------------------- state

VARIABLES
    PDF_SUPPORT,            \* whether pdfplumber could be imported
    call,                   \* the function called: "extract", "verify" or "process"
    pc,                     \* the position in the running function
    pdf_path,               \* the file given to extract_invoice_info_from_pdf
    text_blocks,            \* extractor: the blocks of the file's text
    invoice_info,           \* extractor: the fields extracted so far
    missing_fields,         \* extractor: the display names of the fields not found
    is_piao_jia_format,     \* extractor: the ticket-fare rule fired
    pdf_extraction_result,  \* what extract_invoice_info_from_pdf returned
    pdf_directory,          \* verifier: "None", "missing" or "exists"
    files,                  \* verifier: the PDF files under the directory
    recursive,              \* verifier: search the subdirectories too
    df,                     \* process_excel: the rows read from the input sheet
    result_df,              \* verifier: the rows of the spreadsheet
    idx,                    \* verifier: the row being verified, from 1
    verification_results,   \* verifier: the results so far, the list returned
    summary                 \* verifier: the counts printed after the last row

vars == <<PDF_SUPPORT, call, pc, pdf_path, text_blocks, invoice_info,
          missing_fields, is_piao_jia_format, pdf_extraction_result,
          pdf_directory, files, recursive, df, result_df, idx,
          verification_results, summary>>

extractor_vars == <<pdf_path, text_blocks, invoice_info, missing_fields,
                    is_piao_jia_format, pdf_extraction_result>>

verifier_vars == <<result_df, idx, verification_results, summary>>

inputs == <<PDF_SUPPORT, call, pdf_directory, files, recursive, df>>

\* field_names: the keys of invoice_info and their display names
field_names ==
    [invoice_number |-> "fa piao hao ma",
     invoice_amount |-> "kai piao jin e",
     tax_rate |-> "shui lv",
     amount_excluding_tax |-> "bu han shui jin e",
     tax_amount |-> "shui e",
     invoice_date |-> "kai piao ri qi"]

FieldKeys == DOMAIN field_names

\* list(field_names.values())
AllFieldNames ==
    <<field_names.invoice_number, field_names.invoice_amount, field_names.tax_rate,
      field_names.amount_excluding_tax, field_names.tax_amount,
      field_names.invoice_date>>

\* {}: a dict with no key
EmptyDict == [k \in {} |-> 0]

\* d[key] = value
Put(d, key, value) == (key :> value) @@ d

\* no file, no result yet
NoFile == [name |-> <<>>, depth |-> 0, readable |-> FALSE, items |-> <<>>]
NoResult == [error |-> "not returned", data |-> EmptyDict, missing_fields |-> <<>>]

\* ------------------------------------------------------------ extractor
\* extract_invoice_info_from_pdf(pdf_path), one action for each of its parts

\* the function returns  result  to its caller
Return(result) ==
    /\ pdf_extraction_result' = result
    /\ pc' = IF call = "verify" THEN "classify" ELSE "done"

\* a variant: the error returned with the defaults of the tax rate and the
\* tax amount in data
ErrorResultWithDefaults(message, missing) ==
    [error |-> message,
     data |-> Put(Put(EmptyDict, "tax_rate", NaN), "tax_amount", 0),
     missing_fields |-> missing]

\* the result returned with an error: no data
ErrorResult(message, missing) ==
    [error |-> message, data |-> EmptyDict, missing_fields |-> missing]

\* lines 34-99: the guard on pdfplumber, opening the file (any exception is
\* caught at line 486), building the blocks, the guard on empty text
Open ==
    /\ pc = "open"
    /\ UNCHANGED <<inputs, verifier_vars, pdf_path, is_piao_jia_format>>
    /\ IF ~PDF_SUPPORT
       THEN /\ Return(ErrorResult("pdfplumber not installed", <<>>))
            /\ UNCHANGED <<text_blocks, invoice_info, missing_fields>>
       ELSE IF ~pdf_path.readable
       THEN /\ Return(ErrorResult("read failed", AllFieldNames))
            /\ UNCHANGED <<text_blocks, invoice_info, missing_fields>>
       ELSE IF ComprehensiveText(TextBlocks(pdf_path.items), FullText(pdf_path.items)) = <<>>
               /\ FullText(pdf_path.items) = <<>>
       THEN /\ Return(ErrorResult("no text content", AllFieldNames))
            /\ text_blocks' = TextBlocks(pdf_path.items)
            /\ UNCHANGED <<invoice_info, missing_fields>>
       ELSE /\ text_blocks' = TextBlocks(pdf_path.items)
            /\ invoice_info' = EmptyDict
            /\ missing_fields' = <<>>
            /\ pc' = "invoice_number"
            /\ UNCHANGED pdf_extraction_result

\* search_text of the file being read
search_text == SearchText(text_blocks, FullText(pdf_path.items))

\* lines 105-142
ExtractInvoiceNumber ==
    /\ pc = "invoice_number"
    /\ LET found == FindInvoiceNumber(text_blocks, search_text)
       IN  IF found # NoMatch
           THEN /\ invoice_info' = Put(invoice_info, "invoice_number", found)
                /\ UNCHANGED missing_fields
           ELSE /\ missing_fields' = Append(missing_fields, field_names.invoice_number)
                /\ UNCHANGED invoice_info
    /\ pc' = "invoice_amount"
    /\ UNCHANGED <<inputs, verifier_vars, pdf_path, text_blocks, is_piao_jia_format,
                   pdf_extraction_result>>

TicketTaxRate == 9

\* lines 174-182: the four fields a ticket fare of amount_value gives
PiaoJiaFields(info, amount_value) ==
    Put(Put(Put(Put(info,
        "invoice_amount", amount_value),
        "tax_rate", TicketTaxRate * One),
        "amount_excluding_tax", DivideBy109(amount_value)),
        "tax_amount", Minus(amount_value, DivideBy109(amount_value)))

\* a variant: the capture of the amount patterns first, the piao jia scan
\* only when they gave none
SetInvoiceAmountTotalFirst(piao_jia, found) ==
    IF found # NoMatch
    THEN /\ invoice_info' =
               Put(invoice_info, "invoice_amount", ParseFloat(RemoveCommas(found)))
         /\ is_piao_jia_format' = FALSE
         /\ UNCHANGED missing_fields
    ELSE IF piao_jia # NoMatch
    THEN /\ invoice_info' = PiaoJiaFields(invoice_info, ParseFloat(RemoveCommas(piao_jia)))
         /\ is_piao_jia_format' = TRUE
         /\ UNCHANGED missing_fields
    ELSE /\ missing_fields' = Append(missing_fields, field_names.invoice_amount)
         /\ is_piao_jia_format' = FALSE
         /\ UNCHANGED invoice_info

\* lines 166-223: the fields set from the capture of the piao jia scan, or
\* else from the capture of the amount patterns
SetInvoiceAmount(piao_jia, found) ==
    IF piao_jia # NoMatch
    THEN /\ invoice_info' = PiaoJiaFields(invoice_info, ParseFloat(RemoveCommas(piao_jia)))
         /\ is_piao_jia_format' = TRUE
         /\ UNCHANGED missing_fields
    ELSE IF found # NoMatch
    THEN /\ invoice_info' =
               Put(invoice_info, "invoice_amount", ParseFloat(RemoveCommas(found)))
         /\ is_piao_jia_format' = FALSE
         /\ UNCHANGED missing_fields
    ELSE /\ missing_fields' = Append(missing_fields, field_names.invoice_amount)
         /\ is_piao_jia_format' = FALSE
         /\ UNCHANGED invoice_info

\* lines 148-223
ExtractInvoiceAmount ==
    /\ pc = "invoice_amount"
    /\ SetInvoiceAmount(PiaoJiaFromBlocks(text_blocks),
                        FindInvoiceAmount(text_blocks, search_text))
    /\ pc' = "tax_rate"
    /\ UNCHANGED <<inputs, verifier_vars, pdf_path, text_blocks, pdf_extraction_result>>

\* a variant: the search for the tax rate runs after a ticket fare too
ExtractTaxRateAlways ==
    /\ pc = "tax_rate"
    /\ LET found == FindTaxRate(text_blocks, search_text)
       IN  invoice_info' =
             IF found # NoMatch THEN Put(invoice_info, "tax_rate", ParseFloat(found))
             ELSE IF is_piao_jia_format THEN invoice_info
             ELSE Put(invoice_info, "tax_rate", NaN)
    /\ pc' = "amount_excluding_tax"
    /\ UNCHANGED <<inputs, verifier_vars, pdf_path, text_blocks, missing_fields,
                   is_piao_jia_format, pdf_extraction_result>>

\* lines 227-277
ExtractTaxRate ==
    /\ pc = "tax_rate"
    /\ LET found == FindTaxRate(text_blocks, search_text)
       IN  invoice_info' =
             IF is_piao_jia_format THEN invoice_info
             ELSE IF found # NoMatch THEN Put(invoice_info, "tax_rate", ParseFloat(found))
             ELSE Put(invoice_info, "tax_rate", NaN)
    /\ pc' = "amount_excluding_tax"
    /\ UNCHANGED <<inputs, verifier_vars, pdf_path, text_blocks, missing_fields,
                   is_piao_jia_format, pdf_extraction_result>>

\* lines 284-366
ExtractAmountExcludingTax ==
    /\ pc = "amount_excluding_tax"
    /\ LET found == FindExclTax(text_blocks, search_text)
       IN  IF is_piao_jia_format
           THEN UNCHANGED <<invoice_info, missing_fields>>
           ELSE IF found # NoMatch
           THEN /\ invoice_info' = Put(invoice_info, "amount_excluding_tax",
                                       ParseFloat(RemoveCommas(found)))
                /\ UNCHANGED missing_fields
           ELSE /\ missing_fields' =
                      Append(missing_fields, field_names.amount_excluding_tax)
                /\ UNCHANGED invoice_info
    /\ pc' = "tax_amount"
    /\ UNCHANGED <<inputs, verifier_vars, pdf_path, text_blocks, is_piao_jia_format,
                   pdf_extraction_result>>

\* lines 373-449
ExtractTaxAmount ==
    /\ pc = "tax_amount"
    /\ LET found == FindTaxAmount(text_blocks)
       IN  invoice_info' =
             IF is_piao_jia_format THEN invoice_info
             ELSE IF found # NoMatch
             THEN Put(invoice_info, "tax_amount", ParseFloat(RemoveCommas(found)))
             ELSE Put(invoice_info, "tax_amount", 0)
    /\ pc' = "invoice_date"
    /\ UNCHANGED <<inputs, verifier_vars, pdf_path, text_blocks, missing_fields,
                   is_piao_jia_format, pdf_extraction_result>>

\* lines 454-493: the date, and the return of the result
ExtractInvoiceDate ==
    /\ pc = "invoice_date"
    /\ LET found == FindInvoiceDate(text_blocks, search_text)
           data == IF found # NoMatch THEN Put(invoice_info, "invoice_date", found)
                   ELSE invoice_info
           missing == IF found # NoMatch THEN missing_fields
                      ELSE Append(missing_fields, field_names.invoice_date)
       IN  /\ invoice_info' = data
           /\ missing_fields' = missing
           /\ Return([error |-> "None", data |-> data, missing_fields |-> missing])
    /\ UNCHANGED <<inputs, verifier_vars, pdf_path, text_blocks, is_piao_jia_format>>

\* ---------------------------------------------------------- file lookup
\* A file of the directory is [name, depth, readable, items]: the name is
\* the file's name without its .pdf ending, a sequence of digits, "USCORE"
\* and "X" (any other character); depth 0 is the directory itself, depth 1 a
\* subdirectory.

StartsWith(name, prefix) ==
    Len(name) >= Len(prefix) /\ SubSeq(name, 1, Len(prefix)) = prefix

EndsWith(name, suffix) ==
    Len(name) >= Len(suffix)
    /\ SubSeq(name, Len(name) - Len(suffix) + 1, Len(name)) = suffix

\* Contains for a pattern that may be empty
Includes(name, part) == part = <<>> \/ Contains(name, part)

NumSearchPatterns == 4

\* a variant: the search patterns in the reverse order
MatchesShapeReversed(k, name, invoice_str) ==
    CASE k = 4 -> name = invoice_str
      [] k = 3 -> StartsWith(name, invoice_str \o <<"USCORE">>)
      [] k = 2 -> EndsWith(name, <<"USCORE">> \o invoice_str)
      [] k = 1 -> Includes(name, invoice_str)

\* the file name matches search pattern k:  n.pdf, n_*.pdf, *_n.pdf, *n*.pdf
MatchesShape(k, name, invoice_str) ==
    CASE k = 1 -> name = invoice_str
      [] k = 2 -> StartsWith(name, invoice_str \o <<"USCORE">>)
      [] k = 3 -> EndsWith(name, <<"USCORE">> \o invoice_str)
      [] k = 4 -> Includes(name, invoice_str)

\* a variant: the subdirectories searched whatever the mode
GlobAnyDepth(k, invoice_str, rec) ==
    {f \in files : MatchesShape(k, f.name, invoice_str)}

\* list(pdf_dir.glob(pattern)) for search pattern k
Glob(k, invoice_str, rec) ==
    {f \in files : (rec \/ f.depth = 0) /\ MatchesShape(k, f.name, invoice_str)}

\* the matches of the first search pattern from k on that has any
RECURSIVE FirstGlob(_, _, _)
FirstGlob(k, invoice_str, rec) ==
    IF k > NumSearchPatterns THEN {}
    ELSE IF Glob(k, invoice_str, rec) # {} THEN Glob(k, invoice_str, rec)
    ELSE FirstGlob(k + 1, invoice_str, rec)

\* find_pdf_by_invoice_number: the files it may return (matches[0] is any
\* file of the first pattern that matches; no file is None)
FindPdfByInvoiceNumber(invoice_number, rec) ==
    IF pdf_directory # "exists" THEN {}
    ELSE FirstGlob(1, Strip(invoice_number), rec)

\* find_pdf_by_invoice_number raises ValueError: for an empty invoice_str the
\* last search pattern, *{invoice_str}*.pdf, is **.pdf, and pathlib's glob
\* rejects it ('**' can only be an entire path component) once the patterns
\* before it have matched no file; a pathlib that accepts the pattern reads
\* it as *.pdf
GlobMayRaise(invoice_number, rec) ==
    /\ pdf_directory = "exists"
    /\ Strip(invoice_number) = <<>>
    /\ \A k \in 1..(NumSearchPatterns - 1) : Glob(k, Strip(invoice_number), rec) = {}

\* ------------------------------------------------------------- verifier
\* A row of result_df holds the cells the verifier reads: invoice_number (a
\* text, or NaNCell for a blank cell) and four numbers (NaN for a blank cell).

NaNCell == <<"NAN">>
NoneStr == <<"NONE">>

\* tolerance = 0.01
Tolerance == 10 * Milli

\* a variant: the four fields whose absence the extractor reports
reported_fields ==
    {field_names.invoice_number, field_names.invoice_amount,
     field_names.amount_excluding_tax, field_names.invoice_date}

critical_fields ==
    {field_names.invoice_amount, field_names.tax_rate,
     field_names.amount_excluding_tax, field_names.tax_amount}

\* f in missing
InList(f, missing) == \E k \in 1..Len(missing) : missing[k] = f

\* a variant: a field the PDF lacks is passed over
AmountDiscrepancyOfPresent(key, excel, pdf_info, missing) ==
    IF key \in DOMAIN pdf_info /\ excel # NaN /\ AbsDiff(excel, pdf_info[key]) > Tolerance
    THEN <<[field |-> field_names[key], kind |-> "differs"]>>
    ELSE <<>>

\* a variant: a field the PDF lacks is reported only against a cell that
\* holds a value
AmountDiscrepancyOfValue(key, excel, pdf_info, missing) ==
    IF key \in DOMAIN pdf_info /\ excel # NaN
    THEN IF AbsDiff(excel, pdf_info[key]) > Tolerance
         THEN <<[field |-> field_names[key], kind |-> "differs"]>> ELSE <<>>
    ELSE IF InList(field_names[key], missing) /\ excel # NaN
    THEN <<[field |-> field_names[key], kind |-> "cannot extract"]>>
    ELSE <<>>

\* a variant: the amounts compared without the tolerance
AmountDiscrepancyExact(key, excel, pdf_info, missing) ==
    IF key \in DOMAIN pdf_info /\ excel # NaN
    THEN IF excel # pdf_info[key]
         THEN <<[field |-> field_names[key], kind |-> "differs"]>> ELSE <<>>
    ELSE IF InList(field_names[key], missing)
    THEN <<[field |-> field_names[key], kind |-> "cannot extract"]>>
    ELSE <<>>

\* the discrepancy of one amount field: pdf_info.get(key) against the row's cell
AmountDiscrepancy(key, excel, pdf_info, missing) ==
    IF key \in DOMAIN pdf_info /\ excel # NaN
    THEN IF AbsDiff(excel, pdf_info[key]) > Tolerance
         THEN <<[field |-> field_names[key], kind |-> "differs"]>> ELSE <<>>
    ELSE IF InList(field_names[key], missing)
    THEN <<[field |-> field_names[key], kind |-> "cannot extract"]>>
    ELSE <<>>

\* a variant: the tax rate compared even when the PDF's rate is NaN
RateDiscrepancyComparingNaN(excel, pdf_info, missing) ==
    IF "tax_rate" \in DOMAIN pdf_info
    THEN IF excel # NaN /\ AbsDiff(excel, pdf_info.tax_rate) > Tolerance
         THEN <<[field |-> field_names.tax_rate, kind |-> "differs"]>>
         ELSE <<>>
    ELSE IF InList(field_names.tax_rate, missing)
    THEN <<[field |-> field_names.tax_rate, kind |-> "cannot extract"]>>
    ELSE <<>>

\* the discrepancy of the tax rate: a NaN rate of the PDF is not compared
RateDiscrepancy(excel, pdf_info, missing) ==
    IF "tax_rate" \in DOMAIN pdf_info
    THEN IF pdf_info.tax_rate = NaN THEN <<>>
         ELSE IF excel # NaN /\ AbsDiff(excel, pdf_info.tax_rate) > Tolerance
         THEN <<[field |-> field_names.tax_rate, kind |-> "differs"]>>
         ELSE <<>>
    ELSE IF InList(field_names.tax_rate, missing)
    THEN <<[field |-> field_names.tax_rate, kind |-> "cannot extract"]>>
    ELSE <<>>

\* a variant: the numbers compared as the file names are, the PDF's number
\* need only hold the row's
NumberDiscrepancyOfShape(invoice_number_str, pdf_info) ==
    IF "invoice_number" \in DOMAIN pdf_info
       /\ pdf_info.invoice_number # <<>>
       /\ ~Includes(pdf_info.invoice_number, invoice_number_str)
    THEN <<[field |-> field_names.invoice_number, kind |-> "differs"]>>
    ELSE <<>>

\* the discrepancy of the invoice number
NumberDiscrepancy(invoice_number_str, pdf_info) ==
    IF "invoice_number" \in DOMAIN pdf_info
       /\ pdf_info.invoice_number # <<>>
       /\ pdf_info.invoice_number # invoice_number_str
    THEN <<[field |-> field_names.invoice_number, kind |-> "differs"]>>
    ELSE <<>>

\* lines 698-744: discrepancies, in the order the fields are compared
Discrepancies(row, pdf_info, missing) ==
    NumberDiscrepancy(Strip(row.invoice_number), pdf_info)
    \o AmountDiscrepancy("invoice_amount", row.invoice_amount, pdf_info, missing)
    \o RateDiscrepancy(row.tax_rate, pdf_info, missing)
    \o AmountDiscrepancy("amount_excluding_tax", row.amount_excluding_tax, pdf_info, missing)
    \o AmountDiscrepancy("tax_amount", row.tax_amount, pdf_info, missing)

\* an entry of verification_results
Result(row_idx, invoice_number, status, message, discrepancies, missing, path) ==
    [row |-> row_idx + 1, invoice_number |-> invoice_number, status |-> status,
     message |-> message, discrepancies |-> discrepancies,
     missing_fields |-> missing, pdf_path |-> path]

\* [f for f in missing_fields if f in critical_fields]
MissingCritical(missing) == {f \in critical_fields : InList(f, missing)}

\* lines 654-771: the entry for a row whose PDF was found and read
Classified(row_idx, row, path, result) ==
    LET invoice_number_str == Strip(row.invoice_number)
        discrepancies == Discrepancies(row, result.data, result.missing_fields)
    IN  IF result = NoResult
        THEN Result(row_idx, invoice_number_str, "PDF_EXTRACTION_FAILED",
                    "cannot open", <<>>, <<>>, <<>>)
        ELSE IF result.error # "None"
        THEN Result(row_idx, invoice_number_str, "PDF_EXTRACTION_FAILED",
                    result.error, <<>>, result.missing_fields, <<>>)
        ELSE IF MissingCritical(result.missing_fields) = critical_fields
        THEN Result(row_idx, invoice_number_str, "PDF_EXTRACTION_FAILED",
                    "critical fields missing", <<>>, result.missing_fields, <<>>)
        ELSE IF discrepancies # <<>>
        THEN Result(row_idx, invoice_number_str, "MISMATCH",
                    "", discrepancies, result.missing_fields, path)
        ELSE IF result.missing_fields # <<>>
        THEN Result(row_idx, invoice_number_str, "MATCH",
                    "passed, some fields missing", <<>>, result.missing_fields, <<>>)
        ELSE Result(row_idx, invoice_number_str, "MATCH", "passed", <<>>, <<>>, <<>>)

\* sum(1 for r in verification_results if r['status'] == status)
CountStatus(results, status) ==
    Cardinality({k \in 1..Len(results) : results[k].status = status})

NoSummary ==
    [total |-> 0, matched |-> 0, mismatched |-> 0, not_found |-> 0,
     failed |-> 0, skipped |-> 0]

\* a variant: the rows are gone through whatever the directory
VerifyStartWithoutDirectory ==
    /\ pc = "verify"
    /\ pc' = IF ~PDF_SUPPORT \/ result_df = <<>> THEN "done" ELSE "row"
    /\ UNCHANGED <<inputs, extractor_vars, verifier_vars>>

\* lines 599-611: the early returns of verify_excel_with_pdf
VerifyStart ==
    /\ pc = "verify"
    /\ pc' = IF ~PDF_SUPPORT \/ result_df = <<>> \/ pdf_directory # "exists"
             THEN "done" ELSE "row"
    /\ UNCHANGED <<inputs, extractor_vars, verifier_vars>>

\* lines 624-649: the next row: skipped, its PDF not found, or its PDF handed
\* to the extractor; after the last row, the summary.  No handler stands
\* around the call of find_pdf_by_invoice_number: when it raises, the
\* exception leaves verify_excel_with_pdf and no list is returned
NextRow ==
    /\ pc = "row"
    /\ UNCHANGED <<inputs, result_df, text_blocks, invoice_info, missing_fields,
                   is_piao_jia_format, pdf_extraction_result>>
    /\ IF idx > Len(result_df)
       THEN /\ pc' = "done"
            /\ summary' =
                 [total |-> Len(verification_results),
                  matched |-> CountStatus(verification_results, "MATCH"),
                  mismatched |-> CountStatus(verification_results, "MISMATCH"),
                  not_found |-> CountStatus(verification_results, "PDF_NOT_FOUND"),
                  failed |-> CountStatus(verification_results, "PDF_EXTRACTION_FAILED"),
                  skipped |-> CountStatus(verification_results, "SKIPPED")]
            /\ UNCHANGED <<idx, verification_results, pdf_path>>
       ELSE LET invoice_number == result_df[idx].invoice_number
                found == FindPdfByInvoiceNumber(invoice_number, recursive)
            IN  IF invoice_number = NaNCell \/ invoice_number = <<>>
                THEN /\ verification_results' = Append(verification_results,
                          Result(idx, NoneStr, "SKIPPED", "empty", <<>>, <<>>, <<>>))
                     /\ idx' = idx + 1
                     /\ pc' = "row"
                     /\ UNCHANGED <<pdf_path, summary>>
                ELSE \E raises \in {b \in BOOLEAN :
                                      b => GlobMayRaise(invoice_number, recursive)} :
                     IF raises
                     THEN /\ pc' = "raised"
                          /\ UNCHANGED <<idx, verification_results, pdf_path, summary>>
                     ELSE IF found = {}
                     THEN /\ verification_results' = Append(verification_results,
                               Result(idx, Strip(invoice_number), "PDF_NOT_FOUND",
                                      "not found", <<>>, <<>>, <<>>))
                          /\ idx' = idx + 1
                          /\ pc' = "row"
                          /\ UNCHANGED <<pdf_path, summary>>
                     ELSE /\ pdf_path' \in found
                          /\ pc' = "open"
                          /\ UNCHANGED <<idx, verification_results, summary>>

\* lines 654-771: the row's entry, from what the extractor returned
Classify ==
    /\ pc = "classify"
    /\ verification_results' = Append(verification_results,
           Classified(idx, result_df[idx], pdf_path.name, pdf_extraction_result))
    /\ idx' = idx + 1
    /\ pc' = "row"
    /\ UNCHANGED <<inputs, result_df, summary, extractor_vars>>

\* ---------------------------------------------------------- process_excel
\* process_excel(input_file, output_file, pdf_directory, pdf_recursive) of
\* src/main.py, from the rows read to the call of verify_excel_with_pdf.  A
\* row of df is its columns D, Q, R, S and T; amounts are whole numbers of the
\* unit of Milli, so that sums are exact.

\* a cell that holds a text which is no number
TextCell == -2

\* pd.to_numeric(cell, errors='coerce') as .sum() counts it: NaN and what
\* does not convert count for nothing
ToNumeric(cell) == IF cell = NaN \/ cell = TextCell THEN 0 ELSE cell

\* pd.to_numeric(rows[col], errors='coerce').sum()
RECURSIVE ColumnSum(_, _)
ColumnSum(rows, col) ==
    IF rows = <<>> THEN 0
    ELSE ToNumeric(Head(rows)[col]) + ColumnSum(Tail(rows), col)

\* df[D_col].fillna('').astype(str)
GroupKey(cell) == IF cell = NaNCell THEN <<>> ELSE cell

\* the order in which groupby sorts the keys: that of their characters, a
\* key before the keys it begins
KeyBefore(a, b) ==
    \/ Len(a) < Len(b) /\ SubSeq(b, 1, Len(a)) = a
    \/ \E p \in 1..Len(a) :
          /\ p <= Len(b)
          /\ SubSeq(a, 1, p - 1) = SubSeq(b, 1, p - 1)
          /\ DigitValue(a[p]) < DigitValue(b[p])

RECURSIVE SortedKeys(_)
SortedKeys(keys) ==
    IF keys = {} THEN <<>>
    ELSE LET first == CHOOSE k \in keys : \A o \in keys : o = k \/ KeyBefore(k, o)
         IN  <<first>> \o SortedKeys(keys \ {first})

\* a variant: the first row of the group stands for the group as it is
FirstRowOfGroup(group) == group[1]

\* aggregate_group(group): a single row as it is, else the first row with the
\* sums of Q, S and T over the group
AggregateGroup(group) ==
    IF Len(group) = 1 THEN group[1]
    ELSE [group[1] EXCEPT !.Q = ColumnSum(group, "Q"),
                          !.S = ColumnSum(group, "S"),
                          !.T = ColumnSum(group, "T")]

\* df.groupby('_group_key').apply(aggregate_group): one row for each key, in
\* the order of the keys
Aggregated(rows) ==
    LET keys == SortedKeys({GroupKey(rows[i].D) : i \in 1..Len(rows)})
    IN  [n \in 1..Len(keys) |->
            AggregateGroup(SelectSeq(rows, LAMBDA r : GroupKey(r.D) = keys[n]))]

\* the row of result_df: D -> I, T -> D, R -> E, Q -> F, S -> G, under the
\* names by which verify_excel_with_pdf reads these columns
MapColumns(r) ==
    [invoice_number |-> r.D, invoice_amount |-> r.T, tax_rate |-> r.R,
     amount_excluding_tax |-> r.Q, tax_amount |-> r.S]

ProcessExcel ==
    /\ pc = "process"
    /\ IF df = <<>>
       THEN /\ pc' = "exit"
            /\ UNCHANGED <<call, result_df>>
       ELSE /\ result_df' = [n \in 1..Len(Aggregated(df)) |-> MapColumns(Aggregated(df)[n])]
            /\ IF pdf_directory # "None"
               THEN call' = "verify" /\ pc' = "verify"
               ELSE pc' = "done" /\ UNCHANGED call
    /\ UNCHANGED <<PDF_SUPPORT, pdf_directory, files, recursive, df, idx,
                   verification_results, summary, extractor_vars>>

\* -------------------------------------------------------- specification

\* the state in which  f  is called on the given inputs
Called(f, support, file, directory, dir_files, rec, rows) ==
    /\ PDF_SUPPORT = support
    /\ call = f
    /\ pc = IF f = "extract" THEN "open" ELSE "verify"
    /\ pdf_path = file
    /\ text_blocks = <<>>
    /\ invoice_info = EmptyDict
    /\ missing_fields = <<>>
    /\ is_piao_jia_format = FALSE
    /\ pdf_extraction_result = NoResult
    /\ pdf_directory = directory
    /\ files = dir_files
    /\ recursive = rec
    /\ df = <<>>
    /\ result_df = rows
    /\ idx = 1
    /\ verification_results = <<>>
    /\ summary = NoSummary

Next ==
    \/ Open
    \/ ExtractInvoiceNumber
    \/ ExtractInvoiceAmount
    \/ ExtractTaxRate
    \/ ExtractAmountExcludingTax
    \/ ExtractTaxAmount
    \/ ExtractInvoiceDate
    \/ VerifyStart
    \/ NextRow
    \/ Classify
    \/ ProcessExcel

\* ---------------------------------------------------------------- inputs
\* The files and the spreadsheets the functions are called on.

\* the longest file called on directly, in items, and the longest spreadsheet
MaxLines == 3
MaxRows == 2

\* the sequences of at most n elements of S
SeqsUpTo(S, n) == UNION {[1..k -> S] : k \in 0..n}

\* n times the character c
Rep(c, n) == [k \in 1..n |-> c]

\* an amount of so many thousandths
Money(thousandths) == thousandths * Milli

File(name, depth, readable, items) ==
    [name |-> name, depth |-> depth, readable |-> readable, items |-> items]

Row(number, amount, rate, excl, tax) ==
    [invoice_number |-> number, invoice_amount |-> amount, tax_rate |-> rate,
     amount_excluding_tax |-> excl, tax_amount |-> tax]

\* lines of an invoice's text
BlankLine == <<>>
SpaceLine == <<"SP">>
OtherLine == <<"X">>
NumberLine(digits) == <<"FPHM", "COLON">> \o digits
TotalLine == <<"JSHJ", "LP", "XIAO", "XIE", "RP", "YUAN", "6", "6", "DOT", "2", "0">>
SubtotalLine(yuan) ==
    <<"HE", "SP", "JI", "SP", yuan, "6", "4", "DOT", "2", "8",
      "SP", yuan, "1", "DOT", "9", "2">>
RateLine == <<"3", "PCT">>
GluedRateLine == <<"X", "3", "PCT">>
DateLine == <<"KPRQ", "COLON", "2", "0", "2", "5", "NIAN", "9", "YUE", "3", "RI">>
TicketLine(figure) == <<"PJ", "COLON", "YUAN">> \o figure

GoodNumber == <<"1", "2", "3", "4", "5", "6", "7", "8">>

\* the items a file called on directly is made of
Lines ==
    {BlankLine, PageBreak, SpaceLine, OtherLine, NumberLine(GoodNumber), TotalLine,
     SubtotalLine("YUAN"), RateLine, GluedRateLine, DateLine, TicketLine(<<"5", "8">>)}

\* the files of the directory the verifier searches: an invoice, its copy in
\* a subdirectory without the total, a file that cannot be read, a scanned
\* file, a file whose text holds no field, an invoice that prints no rate,
\* an invoice filed under another number, a ticket
Invoice ==
    <<NumberLine(GoodNumber), BlankLine, TotalLine, BlankLine, SubtotalLine("YUAN"),
      RateLine, BlankLine, DateLine>>

Directory ==
    {File(GoodNumber, 0, TRUE, Invoice),
     File(GoodNumber, 1, TRUE,
          <<NumberLine(GoodNumber), BlankLine, SubtotalLine("YUAN"), RateLine>>),
     File(Rep("2", 8), 0, FALSE, <<>>),
     File(Rep("3", 8), 0, TRUE, <<SpaceLine>>),
     File(Rep("4", 8), 0, TRUE, <<OtherLine>>),
     File(Rep("5", 8), 0, TRUE,
          <<NumberLine(Rep("5", 8)), BlankLine, TotalLine, BlankLine,
            SubtotalLine("YUAN")>>),
     File(Rep("6", 8), 0, TRUE, Invoice),
     File(Rep("7", 8), 1, TRUE,
          <<NumberLine(Rep("7", 8)), BlankLine, TicketLine(<<"5", "8">>)>>)}

\* the rows of the spreadsheet: the invoice's values or blank cells under the
\* number of each file, rows without a number, a row without a file
InvoiceRow(number) == Row(number, Money(66200), Money(3000), Money(64280), Money(1920))
BlankRow(number) == Row(number, NaN, NaN, NaN, NaN)

Rows ==
    {InvoiceRow(GoodNumber), InvoiceRow(NaNCell), InvoiceRow(<<>>), InvoiceRow(SpaceLine),
     InvoiceRow(Rep("9", 8)), InvoiceRow(Rep("2", 8)), InvoiceRow(Rep("3", 8)),
     InvoiceRow(Rep("4", 8)), BlankRow(Rep("4", 8)),
     InvoiceRow(Rep("5", 8)), BlankRow(Rep("5", 8)),
     Row(Rep("5", 8), Money(66200), Money(13000), Money(64280), Money(1920)),
     InvoiceRow(Rep("6", 8)),
     Row(Rep("7", 8), Money(58000), Money(9000), DivideBy109(Money(58000)),
         Money(58000) - DivideBy109(Money(58000)))}

\* extract_invoice_info_from_pdf is called on a file of the given lines
ExtractCalled(lines) ==
    \E support \in BOOLEAN, readable \in BOOLEAN, items \in SeqsUpTo(lines, MaxLines) :
        /\ readable \/ items = <<>>
        /\ Called("extract", support, File(<<>>, 0, readable, items), "None", {}, FALSE, <<>>)

\* verify_excel_with_pdf is called on a spreadsheet of the given rows
VerifyCalled(rows, searches) ==
    \E support \in BOOLEAN, directory \in {"None", "missing", "exists"},
       rec \in searches, sheet \in SeqsUpTo(rows, MaxRows) :
        /\ (support /\ directory = "exists") \/ Len(sheet) <= 1
        /\ Called("verify", support, NoFile, directory,
                  IF directory = "exists" THEN Directory ELSE {}, rec, sheet)

\* process_excel is called on an input sheet of the given rows
ProcessCalled(rows, directories) ==
    \E support \in BOOLEAN, directory \in directories, sheet \in SeqsUpTo(rows, MaxRows) :
        /\ PDF_SUPPORT = support
        /\ call = "process"
        /\ pc = "process"
        /\ pdf_path = NoFile
        /\ text_blocks = <<>>
        /\ invoice_info = EmptyDict
        /\ missing_fields = <<>>
        /\ is_piao_jia_format = FALSE
        /\ pdf_extraction_result = NoResult
        /\ pdf_directory = directory
        /\ files = IF directory = "exists" THEN Directory ELSE {}
        /\ recursive = FALSE
        /\ df = sheet
        /\ result_df = <<>>
        /\ idx = 1
        /\ verification_results = <<>>
        /\ summary = NoSummary

ExcelRow(number, excl, tax, amount) ==
    [D |-> number, Q |-> excl, R |-> Money(3000), S |-> tax, T |-> amount]

\* the invoice's row as the input sheet holds it
InputRows == {ExcelRow(GoodNumber, Money(64280), Money(1920), Money(66200))}

Init ==
    \/ ExtractCalled(Lines)
    \/ VerifyCalled(Rows, BOOLEAN)
    \/ ProcessCalled(InputRows, {"None"})

Spec == Init /\ [][Next]_vars

\* the rows that compare the invoice's values with values beside them: one
\* cell of the row is off by so many thousandths
Deltas == {-11, -9, 9, 11}
CompareFields == {"invoice_amount", "tax_rate", "amount_excluding_tax", "tax_amount"}

CompareRows ==
    {InvoiceRow(GoodNumber)}
    \cup {[InvoiceRow(GoodNumber) EXCEPT ![key] = @ + Money(d)] :
            key \in CompareFields, d \in Deltas}

InitCompare ==
    \/ ExtractCalled({BlankLine, NumberLine(GoodNumber), TotalLine})
    \/ VerifyCalled(CompareRows, {FALSE})
    \/ ProcessCalled(InputRows, {"None"})

SpecCompare == InitCompare /\ [][Next]_vars

\* a spreadsheet that takes the verifier through each of its steps
FewRows ==
    {InvoiceRow(GoodNumber), InvoiceRow(NaNCell), InvoiceRow(Rep("9", 8)),
     InvoiceRow(Rep("2", 8))}

\* the ticket-fare rule: fares with the colon, without it, and behind a
\* label whose figure is a lone comma
Fare(figure) == Money(1000 * figure)
NoColonTicketLine == <<"PJ", "SP", "YUAN", "5", "8">>
CommaTicketLine == <<"PJ", "COLON", "COMMA", "SP", "PJ", "COLON", "YUAN", "5", "8">>

TicketLines ==
    {BlankLine, PageBreak, OtherLine, TicketLine(<<"5", "8">>),
     TicketLine(<<"6", "0", "DOT", "5">>), NoColonTicketLine, CommaTicketLine,
     TotalLine, SubtotalLine("YUAN"), RateLine}

TicketRows ==
    {InvoiceRow(GoodNumber), InvoiceRow(NaNCell), InvoiceRow(Rep("2", 8)),
     Row(Rep("7", 8), Fare(58), Money(9000), DivideBy109(Fare(58)),
         Fare(58) - DivideBy109(Fare(58)))}

InitTicket ==
    \/ ExtractCalled(TicketLines)
    \/ VerifyCalled(TicketRows, BOOLEAN)
    \/ ProcessCalled(InputRows, {"None"})

SpecTicket == InitTicket /\ [][Next]_vars

\* the subtotal line: with either currency sign, with one figure, with
\* other figures, with no figure, and after the total
ShortSubtotalLine == <<"HE", "SP", "JI", "SP", "YUAN", "6", "4", "DOT", "2", "8">>
OtherSubtotalLine == <<"HE", "SP", "JI", "SP", "YUAN", "1", "SP", "FWYUAN", "2">>
BareSubtotalLine == <<"HE", "SP", "JI">>

SubtotalLines ==
    {BlankLine, PageBreak, OtherLine, SubtotalLine("YUAN"), SubtotalLine("FWYUAN"),
     ShortSubtotalLine, OtherSubtotalLine, BareSubtotalLine, TotalLine,
     TicketLine(<<"5", "8">>)}

InitSubtotal ==
    \/ ExtractCalled(SubtotalLines)
    \/ VerifyCalled(FewRows, {FALSE})
    \/ ProcessCalled(InputRows, {"None"})

SpecSubtotal == InitSubtotal /\ [][Next]_vars

\* the invoice number: of the shortest and of the longest length the first
\* patterns take, shorter, and after a blank instead of the colon
LongNumber == GoodNumber \o GoodNumber \o GoodNumber \o <<"9">>
ShortNumber == <<"1", "2", "3", "4", "5", "6", "7">>
SpacedNumberLine == <<"FPHM", "SP", "1">>

NumberLines ==
    {BlankLine, PageBreak, OtherLine, NumberLine(GoodNumber), NumberLine(Rep("9", 8)),
     NumberLine(LongNumber), NumberLine(ShortNumber), SpacedNumberLine}

InitNumber ==
    \/ ExtractCalled(NumberLines)
    \/ VerifyCalled(FewRows, {FALSE})
    \/ ProcessCalled(InputRows, {"None"})

SpecNumber == InitNumber /\ [][Next]_vars

\* the two tiers of the number and of the date: lines that the first pattern
\* matches, lines that a later pattern matches, and a label and its value on
\* two lines that only the text of all the blocks brings together
LabelLine(label) == <<label, "COLON">>
DashDateLine == <<"KPRQ", "SP", "2", "0", "2", "4", "DASH", "1", "DASH", "2">>
DateDigitsLine == <<"2", "0", "2", "3", "NIAN", "7", "YUE", "8", "RI">>

TierLines ==
    {BlankLine, NumberLine(GoodNumber), NumberLine(ShortNumber), SpacedNumberLine,
     LabelLine("FPHM"), Rep("9", 8), DateLine, DashDateLine, LabelLine("KPRQ"),
     DateDigitsLine}

InitTiers ==
    \/ ExtractCalled(TierLines)
    \/ VerifyCalled(FewRows, {FALSE})
    \/ ProcessCalled(InputRows, {"None"})

SpecTiers == InitTiers /\ [][Next]_vars

\* captures that float() does not convert: a lone comma where the figure of
\* the ticket fare, of the total and of the subtotal stands, next to lines
\* whose figures convert
CommaTotalLine == <<"JSHJ", "LP", "XIAO", "XIE", "RP", "YUAN", "COMMA">>
CommaSubtotalLine ==
    <<"HE", "SP", "JI", "SP", "YUAN", "COMMA", "SP", "YUAN", "1", "DOT", "9", "2">>
ExclTaxLine == <<"BHSJE", "COLON", "5">>

ConvertLines ==
    {BlankLine, CommaTicketLine, TicketLine(<<"6", "0", "DOT", "5">>), CommaTotalLine,
     TotalLine, CommaSubtotalLine, SubtotalLine("YUAN"), ExclTaxLine,
     NumberLine(GoodNumber), DateLine}

InitConvert ==
    \/ ExtractCalled(ConvertLines)
    \/ VerifyCalled(FewRows, {FALSE})
    \/ ProcessCalled(InputRows, {"None"})

SpecConvert == InitConvert /\ [][Next]_vars

\* percentages: in the range and at its two ends, beyond it, two in one
\* line, and one that a letter precedes, which \b refuses
PercentLine(digits) == digits \o <<"PCT">>
TwoPercentLine == <<"1", "5", "0", "PCT", "SP", "6", "PCT">>
WordPercentLine == <<"X", "1", "3", "PCT">>

RateLines ==
    {BlankLine, RateLine, PercentLine(<<"1", "5", "0">>), PercentLine(<<"1", "0", "0">>),
     PercentLine(<<"1", "0", "0", "DOT", "5">>), PercentLine(<<"0">>), TwoPercentLine,
     WordPercentLine, TicketLine(<<"5", "8">>), NumberLine(GoodNumber)}

InitRate ==
    \/ ExtractCalled(RateLines)
    \/ VerifyCalled(FewRows, {FALSE})
    \/ ProcessCalled(InputRows, {"None"})

SpecRate == InitRate /\ [][Next]_vars

\* digit runs after the label: of 7, 8, 25 and 26 digits, and of one digit
\* after a blank
TooLongNumber == LongNumber \o <<"0">>

RunLines ==
    {BlankLine, OtherLine, NumberLine(GoodNumber), NumberLine(LongNumber),
     NumberLine(TooLongNumber), NumberLine(ShortNumber), SpacedNumberLine, DateLine}

InitRun ==
    \/ ExtractCalled(RunLines)
    \/ VerifyCalled(FewRows, {FALSE})
    \/ ProcessCalled(InputRows, {"None"})

SpecRun == InitRun /\ [][Next]_vars

\* subtotal lines in which a currency sign stands alone: before the one
\* figure of the line, and before its two figures
LoneSignSubtotalLine ==
    <<"HE", "SP", "JI", "SP", "YUAN", "SP", "YUAN", "1", "DOT", "9", "2">>
LoneSignTwoFiguresLine ==
    <<"HE", "SP", "JI", "SP", "YUAN", "SP", "YUAN", "6", "4", "DOT", "2", "8", "SP",
      "YUAN", "1", "DOT", "9", "2">>

FigureLines ==
    {BlankLine, OtherLine, SubtotalLine("YUAN"), ShortSubtotalLine, OtherSubtotalLine,
     LoneSignSubtotalLine, LoneSignTwoFiguresLine, TotalLine}

InitFigures ==
    \/ ExtractCalled(FigureLines)
    \/ VerifyCalled(FewRows, {FALSE})
    \/ ProcessCalled(InputRows, {"None"})

SpecFigures == InitFigures /\ [][Next]_vars

\* the file lookup: files named after the number in each of the four
\* shapes, in the directory and below it, and a file of another number
NamedFile(name, depth) == File(name, depth, TRUE, <<OtherLine>>)

ShapeFiles ==
    {NamedFile(GoodNumber, 0), NamedFile(GoodNumber, 1),
     NamedFile(GoodNumber \o <<"USCORE", "1">>, 0),
     NamedFile(<<"1", "USCORE">> \o GoodNumber, 0),
     NamedFile(<<"1">> \o GoodNumber \o <<"1">>, 0),
     NamedFile(Rep("2", 8), 0)}

FindRows ==
    {InvoiceRow(GoodNumber), InvoiceRow(<<"SP">> \o GoodNumber), InvoiceRow(Rep("9", 8))}

\* verify_excel_with_pdf is called on a directory that holds some of the files
VerifyCalledIn(directories, rows, searches) ==
    \E support \in BOOLEAN, directory \in {"None", "missing", "exists"},
       rec \in searches, sheet \in SeqsUpTo(rows, MaxRows),
       dir_files \in directories :
        /\ (support /\ directory = "exists") \/ (Len(sheet) <= 1 /\ dir_files = {})
        /\ Called("verify", support, NoFile, directory,
                  IF directory = "exists" THEN dir_files ELSE {}, rec, sheet)

InitFind ==
    \/ VerifyCalledIn(SUBSET ShapeFiles, FindRows, BOOLEAN)
    \/ ProcessCalled(InputRows, {"None"})

SpecFind == InitFind /\ [][Next]_vars

\* the input sheet of process_excel: rows of the same number, of other
\* numbers and of none, with amounts, with blank cells and with a cell whose
\* text is no number
NumericRows ==
    {ExcelRow(number, amounts[1], amounts[2], amounts[3]) :
        number \in {GoodNumber, Rep("9", 8), NaNCell},
        amounts \in {<<Money(64280), Money(1920), Money(66200)>>,
                     <<Money(1000), Money(30), Money(1030)>>,
                     <<NaN, NaN, NaN>>}}

TextRows ==
    {ExcelRow(number, TextCell, Money(1920), Money(66200)) :
        number \in {GoodNumber, Rep("9", 8), NaNCell}}

InitExcel ==
    \/ ProcessCalled(NumericRows \cup TextRows, {"None"})
    \/ ProcessCalled(NumericRows, {"missing", "exists"})

SpecExcel == InitExcel /\ [][Next]_vars

\* files found by each shape of name whose text holds the number of the
\* name, a longer number that begins with it, another number, or none
InvoiceOf(number) == <<NumberLine(number)>> \o Tail(Invoice)

ResolveFiles ==
    {File(GoodNumber, 0, TRUE, Invoice),
     File(GoodNumber, 1, TRUE, InvoiceOf(Rep("2", 8))),
     File(GoodNumber \o <<"USCORE", "1">>, 0, TRUE, Invoice),
     File(<<"1", "USCORE">> \o GoodNumber, 0, TRUE, InvoiceOf(GoodNumber \o <<"1">>)),
     File(<<"1">> \o GoodNumber \o <<"1">>, 0, TRUE, Tail(Invoice))}

InitResolve ==
    \/ VerifyCalledIn(SUBSET ResolveFiles, FindRows, BOOLEAN)
    \/ ProcessCalled(InputRows, {"None"})

SpecResolve == InitResolve /\ [][Next]_vars

\* --------------------------------------------------------------- claims
\* What the claims speak of, said in the terms of the state.

\* extract_invoice_info_from_pdf has returned to the caller of a direct call
Returned == call = "extract" /\ pc = "done"

\* the result returned holds an error
Failed(result) == result.error # "None"

\* the verifier has appended entries, the last of them for the row LastRow
RowDone == call = "verify" /\ pc \in {"row", "done"} /\ verification_results # <<>>
LastEntry == verification_results[Len(verification_results)]
LastRow == result_df[Len(verification_results)]

\* the last row had a number and its PDF was found: pdf_extraction_result is
\* what the extractor returned for it
Extracted == RowDone /\ LastEntry.status \notin {"SKIPPED", "PDF_NOT_FOUND"}

\* the last row reached the comparison step
Compared == Extracted /\ LastEntry.status # "PDF_EXTRACTION_FAILED"

\* a discrepancy is recorded for the field in the entry
HasDiscrepancy(entry, field) ==
    \E k \in 1..Len(entry.discrepancies) : entry.discrepancies[k].field = field

\* the texts the patterns are tried on
Texts == {text_blocks[k] : k \in 1..Len(text_blocks)} \cup {search_text}

\* one cent, and numbers more than a cent apart
OneCent == One \div 100
Apart(a, b) == a - b > OneCent \/ b - a > OneCent

\* the four fields the verifier compares as numbers
NumericFields == {"invoice_amount", "tax_rate", "amount_excluding_tax", "tax_amount"}

\* none of the four numbers was extracted from the text of the last PDF
NoneOfFourExtracted ==
    /\ ~is_piao_jia_format
    /\ "invoice_amount" \notin DOMAIN pdf_extraction_result.data
    /\ "amount_excluding_tax" \notin DOMAIN pdf_extraction_result.data
    /\ FindTaxRate(text_blocks, search_text) = NoMatch
    /\ FindTaxAmount(text_blocks) = NoMatch

\* C1: for every row with a number whose PDF was found, if the extractor
\* returned an error, or none of the invoice amount, the tax rate, the amount
\* excluding tax and the tax amount could be extracted from the PDF, the
\* row's status is PDF_EXTRACTION_FAILED and the entry carries the error text
\* or the list of the missing fields.
C1_ExtractionFailed ==
    Extracted /\ (Failed(pdf_extraction_result) \/ NoneOfFourExtracted)
    => /\ LastEntry.status = "PDF_EXTRACTION_FAILED"
       /\ LastEntry.message = pdf_extraction_result.error
          \/ LastEntry.missing_fields # <<>>

\* C1, the case that fails: the text of the PDF holds none of the four
\* fields, and the row is classified MISMATCH
C1_NothingExtractedMismatch ==
    /\ Extracted
    /\ ~Failed(pdf_extraction_result)
    /\ NoneOfFourExtracted
    /\ LastEntry.status = "MISMATCH"

\* the PDF's invoice number equals the row's and its four numbers are each
\* within 0.01 of the row's
AllAgree ==
    /\ "invoice_number" \in DOMAIN pdf_extraction_result.data
    /\ pdf_extraction_result.data.invoice_number = Strip(LastRow.invoice_number)
    /\ \A key \in NumericFields :
          /\ key \in DOMAIN pdf_extraction_result.data
          /\ LastRow[key] # NaN
          /\ pdf_extraction_result.data[key] # NaN
          /\ ~Apart(LastRow[key], pdf_extraction_result.data[key])

\* C2: a row that reaches the comparison step is MISMATCH if and only if a
\* discrepancy was recorded for it, and MATCH otherwise; when the PDF's
\* invoice number equals the row's and the four numbers of the PDF are each
\* within 0.01 of the row's, the row is MATCH.
C2_MatchOrMismatch ==
    Compared
    => /\ LastEntry.status \in {"MATCH", "MISMATCH"}
       /\ LastEntry.status = "MISMATCH" <=> LastEntry.discrepancies # <<>>
       /\ AllAgree => LastEntry.status = "MATCH"

\* C2 happens: a row whose four numbers are within a cent of the PDF's, one
\* of them not equal to it, is MATCH
C2_Witness ==
    /\ Compared
    /\ AllAgree
    /\ \E key \in NumericFields : LastRow[key] # pdf_extraction_result.data[key]
    /\ LastEntry.status = "MATCH"

\* C3: for each of the four numbers, when the row and the PDF both hold a
\* number, a discrepancy is recorded exactly when they are more than 0.01
\* apart, whichever of the two is the larger: 0.011 apart is a discrepancy
\* and the row is MISMATCH, 0.009 apart is none.
C3_Tolerance ==
    Compared
    => \A key \in NumericFields :
         (/\ key \in DOMAIN pdf_extraction_result.data
          /\ LastRow[key] # NaN
          /\ pdf_extraction_result.data[key] # NaN)
         => /\ HasDiscrepancy(LastEntry, field_names[key])
               <=> Apart(LastRow[key], pdf_extraction_result.data[key])
            /\ Apart(LastRow[key], pdf_extraction_result.data[key])
               => LastEntry.status = "MISMATCH"

\* C3 happens: the row's cell is 0.011 below the PDF's number, and the row
\* before it was 0.009 above and MATCH
C3_Witness ==
    /\ Compared
    /\ Len(verification_results) = 2
    /\ \E key \in NumericFields \cap DOMAIN pdf_extraction_result.data :
          /\ pdf_extraction_result.data[key] - LastRow[key] = Money(11)
          /\ result_df[1][key] - pdf_extraction_result.data[key] = Money(9)
          /\ HasDiscrepancy(LastEntry, field_names[key])
    /\ LastEntry.status = "MISMATCH"
    /\ verification_results[1].status = "MATCH"

\* the tax-rate pattern matches a rate of the range nowhere in the texts
NoRateMatches ==
    \A t \in Texts : \A i \in 1..Len(t) :
        TaxRateAt(t, i) = NoMatch \/ ~RateInRange(TaxRateAt(t, i))

\* the extractor has returned a result without an error, and the text it
\* read is the one in the state
Extraction ==
    /\ pc \in {"done", "classify", "row"}
    /\ pdf_extraction_result # NoResult
    /\ ~Failed(pdf_extraction_result)

\* C4: when no tax-rate pattern matches a block or the fallback text, and
\* the ticket-fare rule did not fire, the tax rate returned is the
\* not-a-number sentinel; the verifier records no discrepancy for a sentinel
\* tax rate, whatever the row's tax-rate cell holds.
C4_SentinelRate ==
    /\ (Extraction /\ ~is_piao_jia_format /\ NoRateMatches)
       => pdf_extraction_result.data.tax_rate = NaN
    /\ (Compared /\ pdf_extraction_result.data.tax_rate = NaN)
       => ~HasDiscrepancy(LastEntry, field_names.tax_rate)

\* C4 happens: the PDF prints no rate, the row's cell holds 13, and the row
\* is MATCH
C4_Witness ==
    /\ Compared
    /\ NoRateMatches
    /\ pdf_extraction_result.data.tax_rate = NaN
    /\ LastRow.tax_rate = Money(13000)
    /\ LastEntry.status = "MATCH"

\* C5: whenever the extractor returns a result whose error is set,
\* missing_fields holds all six display names and data is empty.
C5_ErrorNamesAllFields ==
    (pdf_extraction_result # NoResult /\ Failed(pdf_extraction_result))
    => /\ pdf_extraction_result.missing_fields = AllFieldNames
       /\ pdf_extraction_result.data = EmptyDict

\* C5, the case that fails: without pdfplumber the error comes with an
\* empty missing_fields
C5_NoLibraryNoNames ==
    /\ Returned
    /\ ~PDF_SUPPORT
    /\ Failed(pdf_extraction_result)
    /\ pdf_extraction_result.missing_fields = <<>>

\* C6 as stated: when error is set, data and missing_fields are both empty;
\* when data or missing_fields is not empty, error is null.
C6_ErrorOrDataAndMissing ==
    pdf_extraction_result # NoResult
    => /\ Failed(pdf_extraction_result)
          => /\ pdf_extraction_result.data = EmptyDict
             /\ pdf_extraction_result.missing_fields = <<>>
       /\ (pdf_extraction_result.data # EmptyDict
           \/ pdf_extraction_result.missing_fields # <<>>)
          => ~Failed(pdf_extraction_result)

\* C6: for every result of the extractor, error is set exactly when data is
\* empty (missing_fields may hold names beside an error).
C6_ErrorOrData ==
    pdf_extraction_result # NoResult
    => (Failed(pdf_extraction_result) <=> pdf_extraction_result.data = EmptyDict)

\* C6 happens: an error beside a missing_fields that is not empty
C6_Witness ==
    /\ Returned
    /\ Failed(pdf_extraction_result)
    /\ pdf_extraction_result.data = EmptyDict
    /\ pdf_extraction_result.missing_fields # <<>>

\* a pattern of the field matches one of the texts at some position, and
\* float() converts what it captures
NumberMatches ==
    \E t \in Texts : \E k \in 1..NumInvoiceNumberPatterns, i \in 1..Len(t) :
        InvoiceNumberAt(k, t, i) # NoMatch
AmountMatches ==
    \E t \in Texts : \E k \in 1..NumAmountPatterns, i \in 1..Len(t) :
        Converts(AmountAt(k, t, i))
ExclTaxMatches ==
    \E t \in Texts : \E i \in 1..Len(t) :
        \/ \E k \in 1..NumExclTaxPatterns : Converts(ExclTaxAt(k, t, i))
        \/ Converts(YuanLazyAmountAt(t, i))
TaxAmountMatches ==
    \E t \in Texts : \E i \in 1..Len(t) : Converts(YuanAmountAt(t, i))
DateMatches ==
    \E t \in Texts : \E k \in 1..NumDatePatterns, i \in 1..Len(t) :
        DateAt(k, t, i) # NoMatch

FieldMatches(key) ==
    CASE key = "invoice_number" -> NumberMatches
      [] key = "invoice_amount" -> AmountMatches
      [] key = "tax_rate" -> ~NoRateMatches
      [] key = "amount_excluding_tax" -> ExclTaxMatches
      [] key = "tax_amount" -> TaxAmountMatches
      [] key = "invoice_date" -> DateMatches

\* the ticket-fare rule set the field
SetByTicketFare(key) == is_piao_jia_format /\ key \in NumericFields

\* C7 as stated: in every result without an error, each of the six fields
\* is in data only if a pattern matched the text and the match converted, or
\* the ticket-fare rule set it.
C7_OnlyMatchedFields ==
    Extraction
    => \A key \in DOMAIN pdf_extraction_result.data :
         FieldMatches(key) \/ SetByTicketFare(key)

\* C7: in every result without an error, the invoice number, the invoice
\* amount, the amount excluding tax and the invoice date are in data only if
\* a pattern matched the text and the match converted, or the ticket-fare
\* rule set them; the tax rate and the tax amount are always in data, NaN
\* and 0.0 when nothing matched them.
C7_OnlyMatchedOrDefault ==
    Extraction
    => /\ \A key \in DOMAIN pdf_extraction_result.data \ {"tax_rate", "tax_amount"} :
            FieldMatches(key) \/ SetByTicketFare(key)
       /\ {"tax_rate", "tax_amount"} \subseteq DOMAIN pdf_extraction_result.data
       /\ (NoRateMatches /\ ~is_piao_jia_format)
          => pdf_extraction_result.data.tax_rate = NaN
       /\ (~TaxAmountMatches /\ ~is_piao_jia_format)
          => pdf_extraction_result.data.tax_amount = 0

\* C7 happens: the text holds the invoice number and no other field, and
\* data holds the number and the two defaults
C7_Witness ==
    /\ Returned
    /\ ~Failed(pdf_extraction_result)
    /\ NumberMatches /\ NoRateMatches /\ ~TaxAmountMatches
    /\ DOMAIN pdf_extraction_result.data = {"invoice_number", "tax_rate", "tax_amount"}
    /\ pdf_extraction_result.data.tax_rate = NaN
    /\ pdf_extraction_result.data.tax_amount = 0

\* the blocks in which the ticket-fare pattern matches, and the figure its
\* leftmost match captures
PiaoJiaMatches(block) == {i \in 1..Len(block) : PiaoJiaAt(block, i) # NoMatch}
LeftmostPiaoJia(block) ==
    PiaoJiaAt(block, CHOOSE i \in PiaoJiaMatches(block) :
                        \A j \in PiaoJiaMatches(block) : i <= j)
TicketBlocks ==
    {n \in 1..Len(text_blocks) :
        /\ PiaoJiaMatches(text_blocks[n]) # {}
        /\ Converts(LeftmostPiaoJia(text_blocks[n]))}
FirstTicketFare ==
    LET n == CHOOSE m \in TicketBlocks : \A o \in TicketBlocks : m <= o
    IN  ParseFloat(RemoveCommas(LeftmostPiaoJia(text_blocks[n])))

\* the figures that follow a ticket-fare label in some block, with or
\* without a colon between them
FaresOf(block) ==
    {ParseFloat(RemoveCommas(TailSepYuanOpt(block, i + 1))) :
        i \in {j \in 1..Len(block) :
                  block[j] = "PJ" /\ Converts(TailSepYuanOpt(block, j + 1))}}
LabelledFares == UNION {FaresOf(text_blocks[n]) : n \in 1..Len(text_blocks)}

\* the four numbers of the result are the ones derived from the fare X
DerivedFrom(X) ==
    /\ NumericFields \subseteq DOMAIN pdf_extraction_result.data
    /\ pdf_extraction_result.data.invoice_amount = X
    /\ pdf_extraction_result.data.tax_rate = 9 * One
    /\ pdf_extraction_result.data.amount_excluding_tax * 109 = X * 100
    /\ pdf_extraction_result.data.tax_amount
         = X - pdf_extraction_result.data.amount_excluding_tax
    /\ pdf_extraction_result.data.amount_excluding_tax
         + pdf_extraction_result.data.tax_amount
         = pdf_extraction_result.data.invoice_amount

\* C8 as stated: if some block holds the ticket-fare label followed by a
\* currency figure that parses, the result's invoice amount is such a figure
\* X, its tax rate 9.0, its amount excluding tax X / 1.09 and its tax amount
\* X less the amount excluding tax.
C8_TicketFare ==
    (Extraction /\ LabelledFares # {}) => \E X \in LabelledFares : DerivedFrom(X)

\* C8: if in some block the leftmost match of the ticket-fare pattern, the
\* label, a colon and the figure, captures a figure that parses, then with X
\* the figure of the first such block the result's invoice amount is X, its
\* tax rate 9.0, its amount excluding tax X / 1.09 and its tax amount X less
\* the amount excluding tax.
C8_TicketFareAfterColon ==
    (Extraction /\ TicketBlocks # {}) => DerivedFrom(FirstTicketFare)

\* C8 happens: the fare 60.5 stands in the second block that holds a label,
\* after a block whose label has no colon, and the result is derived from it
C8_Witness ==
    /\ Returned
    /\ Extraction
    /\ TicketBlocks # {} /\ 1 \notin TicketBlocks
    /\ text_blocks[1] = NoColonTicketLine
    /\ FirstTicketFare = Money(60500)
    /\ DerivedFrom(Money(60500))

\* the blocks that hold the subtotal label, and the currency figures that
\* follow the label with no jia shui he ji before them
SubtotalBlocks == {n \in 1..Len(text_blocks) : AfterHeJi(text_blocks[n]) # 0}
FiguresAfterSubtotal(block) ==
    {i \in AfterHeJi(block)..Len(block) :
        /\ Converts(YuanAmountAt(block, i))
        /\ FindSeq(block, 1, <<"JSHJ">>) \notin 1..i}
NthFigure(block, n) ==
    LET at == CHOOSE i \in FiguresAfterSubtotal(block) :
                  Cardinality({j \in FiguresAfterSubtotal(block) : j < i}) = n - 1
    IN  ParseFloat(RemoveCommas(YuanAmountAt(block, at)))

\* C9: when the ticket-fare rule did not fire and the first block that holds
\* the subtotal label holds, after the label and with no jia shui he ji
\* before them, two currency figures A then B, the result's amount excluding
\* tax is A and its tax amount is B.
C9_SubtotalFigures ==
    (Extraction /\ ~is_piao_jia_format /\ SubtotalBlocks # {})
    => LET block == text_blocks[CHOOSE n \in SubtotalBlocks :
                                    \A m \in SubtotalBlocks : n <= m]
       IN  Cardinality(FiguresAfterSubtotal(block)) >= 2
           => /\ "amount_excluding_tax" \in DOMAIN pdf_extraction_result.data
              /\ pdf_extraction_result.data.amount_excluding_tax = NthFigure(block, 1)
              /\ pdf_extraction_result.data.tax_amount = NthFigure(block, 2)

\* C9 fails: the only block is the subtotal line written with the full-width
\* currency sign, 64.28 then 1.92, and the tax amount returned is 0.0
C9_FullWidthSignNoTax ==
    /\ Returned
    /\ Extraction
    /\ text_blocks = <<SubtotalLine("FWYUAN")>>
    /\ "amount_excluding_tax" \in DOMAIN pdf_extraction_result.data
    /\ pdf_extraction_result.data.amount_excluding_tax = Money(64280)
    /\ pdf_extraction_result.data.tax_amount = 0

\* the blocks that are the label, the colon and a run of 8 to 25 digits,
\* and the digits of such a block
Digits(block) == SubSeq(block, 3, Len(block))
OwnNumberBlocks ==
    {n \in 1..Len(text_blocks) :
        /\ Len(text_blocks[n]) - 2 \in MinInvoiceDigits..MaxInvoiceDigits
        /\ SubSeq(text_blocks[n], 1, 2) = <<"FPHM", "COLON">>
        /\ \A i \in 3..Len(text_blocks[n]) : text_blocks[n][i] \in Digit}

\* the block holds the label, colons or blanks after it, and then a digit
LabelThenDigit(block) ==
    \E i \in 1..Len(block) :
        /\ AfterLabelSep(block, i, "FPHM") # 0
        /\ OneOf(block, AfterLabelSep(block, i, "FPHM"), Digit) # 0

HasNumber(invoice_number) ==
    invoice_number # NaNCell /\ Strip(invoice_number) # <<>>

\* the name of a file has shape k for the number n: n.pdf, n_*.pdf, *_n.pdf,
\* *n*.pdf
HasShape(k, name, n) ==
    \/ k = 1 /\ name = n
    \/ k = 2 /\ Len(name) > Len(n) /\ SubSeq(name, 1, Len(n) + 1) = n \o <<"USCORE">>
    \/ k = 3 /\ Len(name) > Len(n)
             /\ SubSeq(name, Len(name) - Len(n), Len(name)) = <<"USCORE">> \o n
    \/ k = 4 /\ \E i \in 1..(Len(name) - Len(n) + 1) : SubSeq(name, i, i + Len(n) - 1) = n

\* the files the lookup searches: the directory, and what lies below it in
\* recursive mode
Searched == {f \in files : recursive \/ f.depth = 0}

\* no file searched has one of the four shapes for the number of the cell
NoFileMatches(invoice_number) ==
    \A f \in Searched : \A k \in 1..4 : ~HasShape(k, f.name, Strip(invoice_number))

\* the extractor is running, or has just returned, for the row idx
ExtractorInvoked ==
    /\ call = "verify"
    /\ pc \in {"open", "invoice_number", "invoice_amount", "tax_rate",
               "amount_excluding_tax", "tax_amount", "invoice_date", "classify"}

\* C11: a row whose cell holds a number n, when no file searched is named
\* n.pdf, n_*.pdf, *_n.pdf or *n*.pdf, gets the status PDF_NOT_FOUND whatever
\* else the directory holds, and the extractor is not invoked for the row.
C11_NotFound ==
    /\ (RowDone /\ HasNumber(LastRow.invoice_number)
        /\ NoFileMatches(LastRow.invoice_number))
       => LastEntry.status = "PDF_NOT_FOUND"
    /\ (ExtractorInvoked /\ HasNumber(result_df[idx].invoice_number))
       => ~NoFileMatches(result_df[idx].invoice_number)

\* C11 happens: the only file named after the row's number lies below the
\* directory, beside a file of another number, the search is not recursive,
\* and the row is PDF_NOT_FOUND
C11_Witness ==
    /\ RowDone
    /\ ~recursive
    /\ files = {NamedFile(GoodNumber, 1), NamedFile(Rep("2", 8), 0)}
    /\ LastRow.invoice_number = GoodNumber
    /\ LastEntry.status = "PDF_NOT_FOUND"
    /\ pdf_path = NoFile

\* the cell is empty: blank, the empty string, or nothing but whitespace
EmptyCell(invoice_number) ==
    invoice_number = NaNCell \/ Strip(invoice_number) = <<>>

\* C12: a row whose invoice-number cell is empty, blank, the empty string or
\* a string of whitespace only, gets the status SKIPPED, and neither the file
\* lookup nor the extractor acts on it: the lookup does not raise for it and
\* the extractor is not invoked for it.
C12_EmptySkipped ==
    /\ (RowDone /\ EmptyCell(LastRow.invoice_number)) => LastEntry.status = "SKIPPED"
    /\ (ExtractorInvoked \/ (call = "verify" /\ pc = "raised"))
       => ~EmptyCell(result_df[idx].invoice_number)

\* C12 fails: the cell of the row is one blank, the lookup has raised for
\* it, and the verifier has ended without an entry for the row
C12_BlankCellRaises ==
    /\ call = "verify"
    /\ pc = "raised"
    /\ result_df[idx].invoice_number = SpaceLine
    /\ Len(verification_results) = idx - 1

\* a discrepancy of the kind is recorded for the field in the entry
HasDiscrepancyOfKind(entry, field, kind) ==
    \E k \in 1..Len(entry.discrepancies) :
        entry.discrepancies[k] = [field |-> field, kind |-> kind]

\* C13: in a row that reaches the comparison step, for each of the invoice
\* amount, the tax rate, the amount excluding tax and the tax amount, when
\* the row has a value for the field and the extractor listed the field as
\* missing, a "cannot extract" discrepancy is recorded for the field and the
\* row is MISMATCH.
C13_CannotExtract ==
    Compared
    => \A key \in NumericFields :
         (LastRow[key] # NaN
          /\ InList(field_names[key], pdf_extraction_result.missing_fields))
         => /\ HasDiscrepancyOfKind(LastEntry, field_names[key], "cannot extract")
            /\ LastEntry.status = "MISMATCH"

\* C13 happens: the row has an invoice amount, the PDF holds the other
\* fields as the row has them and no invoice amount, and the one discrepancy
\* is that the invoice amount cannot be extracted
C13_Witness ==
    /\ Compared
    /\ LastRow.invoice_amount = Money(66200)
    /\ "amount_excluding_tax" \in DOMAIN pdf_extraction_result.data
    /\ InList(field_names.invoice_amount, pdf_extraction_result.missing_fields)
    /\ LastEntry.status = "MISMATCH"
    /\ LastEntry.discrepancies
         = <<[field |-> field_names.invoice_amount, kind |-> "cannot extract"]>>

\* the key of a display name
KeyOf(field) == CHOOSE key \in FieldKeys : field_names[key] = field

\* C14: in a row that reaches the comparison step, every discrepancy
\* recorded is for a field for which both the row and the PDF supplied a
\* value: the row's cell is not blank and the field was extracted.
C14_ComparableOnly ==
    Compared
    => \A k \in 1..Len(LastEntry.discrepancies) :
         LET key == KeyOf(LastEntry.discrepancies[k].field)
         IN  /\ key \in DOMAIN pdf_extraction_result.data
             /\ ~InList(field_names[key], pdf_extraction_result.missing_fields)
             /\ LastRow[key] # NaN
             /\ key = "tax_amount" => (is_piao_jia_format \/ TaxAmountMatches)

\* C14 fails: the text of the PDF holds no tax amount, the row's tax amount
\* is 1.92, and a discrepancy is recorded between 1.92 and the default 0.0
C14_DefaultTaxAmountCompared ==
    /\ Compared
    /\ ~is_piao_jia_format
    /\ ~TaxAmountMatches
    /\ pdf_extraction_result.data.tax_amount = 0
    /\ LastRow.tax_amount = Money(1920)
    /\ HasDiscrepancyOfKind(LastEntry, field_names.tax_amount, "differs")

\* C15: verify_excel_with_pdf called without a directory, on a directory
\* that does not exist, or on no rows, returns the empty list: no entry is
\* ever appended, no file is looked up and the extractor is not invoked.
C15_NoOp ==
    (call = "verify" /\ (pdf_directory # "exists" \/ result_df = <<>>))
    => /\ pc \in {"verify", "done"}
       /\ verification_results = <<>>
       /\ pdf_path = NoFile
       /\ pdf_extraction_result = NoResult

\* C15 happens: the call on one row and a directory that does not exist has
\* returned, with pdfplumber installed
C15_Witness ==
    /\ call = "verify"
    /\ pc = "done"
    /\ PDF_SUPPORT
    /\ pdf_directory = "missing"
    /\ Len(result_df) = 1
    /\ verification_results = <<>>

\* C16 for the cells that hold a number: in either mode, the file handed to
\* the extractor for a row with a number n is a file searched whose name has one of the shapes n.pdf,
\* n_*.pdf, *_n.pdf, *n*.pdf, and no file searched has a shape earlier in
\* that order; the row is PDF_NOT_FOUND exactly when no file searched has
\* any of the shapes.
C16_FirstShapeWins ==
    /\ (call = "verify" /\ pc = "open" /\ HasNumber(result_df[idx].invoice_number))
       => /\ pdf_path \in Searched
          /\ \E k \in 1..4 :
               /\ HasShape(k, pdf_path.name, Strip(result_df[idx].invoice_number))
               /\ \A j \in 1..(k - 1) : \A f \in Searched :
                    ~HasShape(j, f.name, Strip(result_df[idx].invoice_number))
    /\ (RowDone /\ HasNumber(LastRow.invoice_number))
       => (LastEntry.status = "PDF_NOT_FOUND" <=> NoFileMatches(LastRow.invoice_number))

\* C16 happens: the directory holds files of the three wildcard shapes and,
\* below it, the file of the exact name; the recursive search hands the
\* exact one to the extractor
C16_Witness ==
    /\ call = "verify"
    /\ pc = "open"
    /\ recursive
    /\ result_df[idx].invoice_number = GoodNumber
    /\ files = ShapeFiles \ {NamedFile(GoodNumber, 0), NamedFile(Rep("2", 8), 0)}
    /\ pdf_path = NamedFile(GoodNumber, 1)

\* C16: the lookup, for any text it is given, returns: it hands to the
\* extractor a file searched that has the first of the shapes n.pdf, n_*.pdf,
\* *_n.pdf, *n*.pdf any file searched has, n being the text stripped, and it
\* returns none, the row being PDF_NOT_FOUND, exactly when no file searched
\* has any of the shapes.
C16_FirstShapeOfAnyText ==
    /\ call = "verify" => pc # "raised"
    /\ (call = "verify" /\ pc = "open")
       => /\ pdf_path \in Searched
          /\ \E k \in 1..4 :
               /\ HasShape(k, pdf_path.name, Strip(result_df[idx].invoice_number))
               /\ \A j \in 1..(k - 1) : \A f \in Searched :
                    ~HasShape(j, f.name, Strip(result_df[idx].invoice_number))
    /\ (RowDone /\ LastEntry.status # "SKIPPED")
       => (LastEntry.status = "PDF_NOT_FOUND" <=> NoFileMatches(LastRow.invoice_number))

\* C16 fails: the text is one blank, a file searched has the shape *n*.pdf
\* for the empty n, and the lookup has raised instead of returning it
C16_LookupRaises ==
    /\ call = "verify"
    /\ pc = "raised"
    /\ Strip(result_df[idx].invoice_number) = <<>>
    /\ \E f \in Searched : HasShape(4, f.name, <<>>)
    /\ pdf_path = NoFile

\* the call of the verifier is none of those that return the empty list at
\* once, and it has ended
VerifierEnded ==
    /\ call = "verify"
    /\ PDF_SUPPORT /\ pdf_directory = "exists" /\ result_df # <<>>
    /\ pc \in {"done", "raised"}

\* C17: a call of the verifier that is not a no-op ends with one entry for
\* each row of the sheet, in the order of the rows, each with one of the five
\* statuses, and the five counts of its summary add up to the number of rows;
\* after a row that ends PDF_NOT_FOUND or PDF_EXTRACTION_FAILED the next row
\* is gone to.
C17_OneEntryPerRow ==
    /\ VerifierEnded
       => /\ Len(verification_results) = Len(result_df)
          /\ \A k \in 1..Len(verification_results) :
               /\ verification_results[k].row = k + 1
               /\ verification_results[k].status \in
                    {"MATCH", "MISMATCH", "PDF_NOT_FOUND", "PDF_EXTRACTION_FAILED",
                     "SKIPPED"}
          /\ summary.matched + summary.mismatched + summary.not_found
               + summary.failed + summary.skipped = Len(result_df)
    /\ (RowDone /\ LastEntry.status \in {"PDF_NOT_FOUND", "PDF_EXTRACTION_FAILED"})
       => (pc = "row" \/ Len(verification_results) = Len(result_df))

\* C17 fails: the sheet has two rows, the cell of the first is one blank and
\* the second holds a number; the lookup raised on the first row and the call
\* ended with no entry at all
C17_RowsLeftOut ==
    /\ VerifierEnded
    /\ pc = "raised"
    /\ Len(result_df) = 2
    /\ idx = 1
    /\ HasNumber(result_df[2].invoice_number)
    /\ verification_results = <<>>

\* the three numbers derived from the fare X stand in the fields info, and
\* none of their names is in the list missing
DerivedAndNotMissing(info, missing, X) ==
    /\ {"tax_rate", "amount_excluding_tax", "tax_amount"} \subseteq DOMAIN info
    /\ info.tax_rate = 9 * One
    /\ info.amount_excluding_tax * 109 = X * 100
    /\ info.tax_amount = X - info.amount_excluding_tax
    /\ ~InList(field_names.tax_rate, missing)
    /\ ~InList(field_names.amount_excluding_tax, missing)
    /\ ~InList(field_names.tax_amount, missing)

\* C18: once the ticket-fare rule has fired on the fare X, the tax rate, the
\* amount excluding tax and the tax amount are 9.0, X / 1.09 and X less
\* X / 1.09 before and after each of the three searches that follow and in
\* the result returned, whatever percentage tokens, subtotal labels and
\* currency figures the text holds, and none of the three names is in
\* missing_fields.
C18_SearchesSkipped ==
    /\ (is_piao_jia_format
          /\ pc \in {"tax_rate", "amount_excluding_tax", "tax_amount", "invoice_date"})
       => DerivedAndNotMissing(invoice_info, missing_fields, FirstTicketFare)
    /\ (is_piao_jia_format /\ Extraction)
       => DerivedAndNotMissing(pdf_extraction_result.data,
                               pdf_extraction_result.missing_fields, FirstTicketFare)

\* C18 happens: the text holds a tax rate of 3%, a subtotal line with two
\* currency figures and the fare 58, and the result returned holds the
\* numbers derived from 58
C18_Witness ==
    /\ Returned
    /\ Extraction
    /\ is_piao_jia_format
    /\ pdf_path.items = <<RateLine, SubtotalLine("YUAN"), TicketLine(<<"5", "8">>)>>
    /\ FindTaxRate(text_blocks, search_text) # NoMatch
    /\ FindExclTax(text_blocks, search_text) # NoMatch
    /\ FindTaxAmount(text_blocks) # NoMatch
    /\ DerivedAndNotMissing(pdf_extraction_result.data,
                            pdf_extraction_result.missing_fields, Fare(58))

\* the currency figures of the block that stand after its subtotal label and
\* before the jia shui he ji that follows the label, if one does
FiguresBeforeTotal(block) ==
    {i \in AfterHeJi(block)..Len(block) :
        /\ Converts(YuanAmountAt(block, i))
        /\ \A j \in AfterHeJi(block)..i : block[j] # "JSHJ"}

\* C19: when the amount excluding tax is taken from a block, it is the first
\* currency figure that stands after the subtotal label of a block and before
\* the jia shui he ji of that block; a figure that stands after the
\* jia shui he ji is never taken.
C19_FirstFigureBeforeTotal ==
    (Extraction /\ ~is_piao_jia_format /\ ExclTaxFromBlocks(text_blocks) # NoMatch)
    => /\ "amount_excluding_tax" \in DOMAIN pdf_extraction_result.data
       /\ \E n \in SubtotalBlocks :
            \E i \in FiguresBeforeTotal(text_blocks[n]) :
               /\ \A j \in FiguresBeforeTotal(text_blocks[n]) : i <= j
               /\ pdf_extraction_result.data.amount_excluding_tax
                    = ParseFloat(RemoveCommas(YuanAmountAt(text_blocks[n], i)))

\* C19 fails: the only block is the subtotal label with no figure and, on the
\* next line, the total 66.20 after jia shui he ji; the amount excluding tax
\* returned is 66.20, the figure after jia shui he ji
C19_TotalTakenAsSubtotal ==
    /\ Returned
    /\ Extraction
    /\ pdf_path.items = <<BareSubtotalLine, TotalLine>>
    /\ Len(text_blocks) = 1
    /\ FiguresBeforeTotal(text_blocks[1]) = {}
    /\ "amount_excluding_tax" \in DOMAIN pdf_extraction_result.data
    /\ pdf_extraction_result.data.amount_excluding_tax = Money(66200)

\* the first block from which the search of lines 296-352 takes the amount
\* excluding tax, and the first block from which the search of lines 383-444
\* takes the tax amount; 0 when no block gives one
ExclTaxBlock ==
    LET giving == {n \in 1..Len(text_blocks) :
                      /\ IsSubtotalBlock(text_blocks[n])
                      /\ ExclTaxOfBlock(text_blocks[n]) # NoMatch}
    IN  IF giving = {} THEN 0 ELSE CHOOSE n \in giving : \A m \in giving : n <= m
TaxAmountBlock ==
    LET giving == {n \in 1..Len(text_blocks) :
                      /\ IsSubtotalBlock(text_blocks[n])
                      /\ TaxAmountOfBlock(text_blocks[n]) # NoMatch}
    IN  IF giving = {} THEN 0 ELSE CHOOSE n \in giving : \A m \in giving : n <= m

\* the tax amount returned is the second of the currency figures of the block
\* that stand after its subtotal label and before its jia shui he ji
SecondFigureOf(block) ==
    \E i \in FiguresBeforeTotal(block) :
        /\ Cardinality({j \in FiguresBeforeTotal(block) : j < i}) = 1
        /\ pdf_extraction_result.data.tax_amount
             = ParseFloat(RemoveCommas(YuanAmountAt(block, i)))

\* C20: when the tax amount is read from a block, not derived from a ticket
\* fare and not defaulted, the amount excluding tax was taken from that same
\* block, and the tax amount is the second currency figure after the
\* subtotal label of that block, before its jia shui he ji.
C20_SameBlockSecondFigure ==
    (Extraction /\ ~is_piao_jia_format /\ TaxAmountBlock # 0)
    => /\ ExclTaxBlock = TaxAmountBlock
       /\ SecondFigureOf(text_blocks[TaxAmountBlock])

\* C20 fails: the first block is a subtotal line with the one figure 64.28,
\* the second a subtotal line with the figures 1 and 2; the amount excluding
\* tax returned is 64.28, of the first block, and the tax amount 2, of the
\* second
C20_TwoBlocks ==
    /\ Returned
    /\ Extraction
    /\ text_blocks = <<ShortSubtotalLine, OtherSubtotalLine>>
    /\ ExclTaxBlock = 1
    /\ TaxAmountBlock = 2
    /\ pdf_extraction_result.data.amount_excluding_tax = Money(64280)
    /\ pdf_extraction_result.data.tax_amount = Money(2000)

\* what the two tiers give for a field: the capture of the first pattern
\* that matches the earliest block any pattern matches, else the capture of
\* the first pattern that matches search_text, else NoMatch.  in_blocks[n][k]
\* and in_text[k] are what pattern k captures at its leftmost match.
TwoTiers(in_blocks, in_text) ==
    LET by_block == [n \in 1..Len(in_blocks) |-> FirstOf(in_blocks[n], NoMatch)]
    IN  IF FirstOf(by_block, NoMatch) # NoMatch THEN FirstOf(by_block, NoMatch)
        ELSE FirstOf(in_text, NoMatch)

NumberOfTwoTiers ==
    TwoTiers([n \in 1..Len(text_blocks) |->
                 [k \in 1..NumInvoiceNumberPatterns |->
                     FirstOf([i \in 1..Len(text_blocks[n]) |->
                                 InvoiceNumberAt(k, text_blocks[n], i)], NoMatch)]],
             [k \in 1..NumInvoiceNumberPatterns |->
                 FirstOf([i \in 1..Len(search_text) |->
                             InvoiceNumberAt(k, search_text, i)], NoMatch)])

DateOfTwoTiers ==
    TwoTiers([n \in 1..Len(text_blocks) |->
                 [k \in 1..NumDatePatterns |->
                     FirstOf([i \in 1..Len(text_blocks[n]) |->
                                 DateAt(k, text_blocks[n], i)], NoMatch)]],
             [k \in 1..NumDatePatterns |->
                 FirstOf([i \in 1..Len(search_text) |->
                             DateAt(k, search_text, i)], NoMatch)])

\* the field key of the result is the value, and is missing when the value
\* is NoMatch
ReturnedAs(key, value) ==
    IF value = NoMatch
    THEN /\ key \notin DOMAIN pdf_extraction_result.data
         /\ InList(field_names[key], pdf_extraction_result.missing_fields)
    ELSE /\ key \in DOMAIN pdf_extraction_result.data
         /\ pdf_extraction_result.data[key] = value
         /\ ~InList(field_names[key], pdf_extraction_result.missing_fields)

\* C21: the invoice number and the invoice date of a result are what the
\* first pattern of the field's list that matches the earliest block any of
\* its patterns matches captures; when no block matches, what the first
\* pattern that matches search_text captures; and the field is missing only
\* when that fails too.
C21_TwoTiers ==
    Extraction
    => /\ ReturnedAs("invoice_number", NumberOfTwoTiers)
       /\ ReturnedAs("invoice_date", DateOfTwoTiers)

\* C21 happens: the first block holds the label and seven digits, which only
\* the third pattern matches, the second the label and eight digits, which
\* the first pattern matches; the number returned is the seven digits
C21_Witness ==
    /\ Returned
    /\ Extraction
    /\ text_blocks = <<NumberLine(ShortNumber), NumberLine(GoodNumber)>>
    /\ InvoiceNumberAt(1, text_blocks[1], 1) = NoMatch
    /\ InvoiceNumberAt(1, text_blocks[2], 1) = GoodNumber
    /\ pdf_extraction_result.data.invoice_number = ShortNumber

\* a capture that float() does not convert counts as no match
ConvertingOnly(cap) == IF Converts(cap) THEN cap ELSE NoMatch

\* the leftmost capture of each pattern in the text s, when it converts
AmountCaptures(s) ==
    [k \in 1..NumAmountPatterns |->
        ConvertingOnly(FirstOf([i \in 1..Len(s) |-> AmountAt(k, s, i)], NoMatch))]
ExclTaxCaptures(s) ==
    [k \in 1..NumExclTaxPatterns |->
        ConvertingOnly(FirstOf([i \in 1..Len(s) |-> ExclTaxAt(k, s, i)], NoMatch))]

\* the capture of the invoice amount, with every capture that does not
\* convert taken for no match: the ticket fare of the first block that gives
\* one, else the two tiers of the amount patterns
AmountOfSearch ==
    LET fares == [n \in 1..Len(text_blocks) |->
                    ConvertingOnly(FirstOf([i \in 1..Len(text_blocks[n]) |->
                                               PiaoJiaAt(text_blocks[n], i)], NoMatch))]
        in_blocks == [n \in 1..Len(text_blocks) |->
                        IF Contains(text_blocks[n], <<"JSHJ">>)
                           /\ Contains(text_blocks[n], <<"XIAO", "XIE">>)
                        THEN AmountCaptures(text_blocks[n])
                        ELSE <<>>]
    IN  IF FirstOf(fares, NoMatch) # NoMatch THEN FirstOf(fares, NoMatch)
        ELSE TwoTiers(in_blocks, AmountCaptures(search_text))

\* the capture of the amount excluding tax, likewise: in a subtotal block the
\* first figure of relevant_text, then the patterns
ExclTaxOfSearch ==
    LET in_blocks == [n \in 1..Len(text_blocks) |->
                        IF IsSubtotalBlock(text_blocks[n])
                        THEN <<ConvertingOnly(FirstAmount(RelevantText(text_blocks[n])))>>
                             \o ExclTaxCaptures(text_blocks[n])
                        ELSE <<>>]
    IN  TwoTiers(in_blocks, ExclTaxCaptures(search_text))

\* the field key of the result is the number the capture writes, and is
\* missing when the capture is NoMatch
ReturnedAsNumber(key, cap) ==
    IF cap = NoMatch
    THEN /\ key \notin DOMAIN pdf_extraction_result.data
         /\ InList(field_names[key], pdf_extraction_result.missing_fields)
    ELSE /\ key \in DOMAIN pdf_extraction_result.data
         /\ pdf_extraction_result.data[key] = ParseFloat(RemoveCommas(cap))
         /\ ~InList(field_names[key], pdf_extraction_result.missing_fields)

\* some capture of a pattern of the invoice amount or of the amount excluding
\* tax, in a block or in search_text, does not convert
SomeCaptureFails ==
    \E t \in Texts : \E i \in 1..Len(t) :
        \/ PiaoJiaAt(t, i) # NoMatch /\ ~Converts(PiaoJiaAt(t, i))
        \/ \E k \in 1..NumAmountPatterns :
              AmountAt(k, t, i) # NoMatch /\ ~Converts(AmountAt(k, t, i))
        \/ \E k \in 1..NumExclTaxPatterns :
              ExclTaxAt(k, t, i) # NoMatch /\ ~Converts(ExclTaxAt(k, t, i))

\* C22: a capture that float() does not convert is taken for no match: the
\* extractor still returns a result without an error, in which the invoice
\* amount and the amount excluding tax are what the next pattern, block or
\* tier gives, missing when none gives one, and the invoice number and the
\* invoice date are what their own searches give.
C22_FailedConversionIsNoMatch ==
    ((call = "extract" /\ pc = "done") \/ (call = "verify" /\ pc = "classify"))
      /\ PDF_SUPPORT /\ pdf_path.readable /\ search_text # <<>> /\ SomeCaptureFails
    => /\ Extraction
       /\ ReturnedAsNumber("invoice_amount", AmountOfSearch)
       /\ is_piao_jia_format
          \/ ReturnedAsNumber("amount_excluding_tax", ExclTaxOfSearch)
       /\ ReturnedAs("invoice_number", NumberOfTwoTiers)
       /\ ReturnedAs("invoice_date", DateOfTwoTiers)

\* C22 happens: the first block is the total with a lone comma for its
\* figure, which three patterns capture and float() refuses, the second the
\* total 66.20; the amount returned is 66.20 and the other fields are as
\* without the first block
C22_Witness ==
    /\ Returned
    /\ Extraction
    /\ text_blocks = <<CommaTotalLine, TotalLine>>
    /\ \E k \in 1..NumAmountPatterns :
          /\ SearchAmountFrom(k, CommaTotalLine, 1) # NoMatch
          /\ ~Converts(SearchAmountFrom(k, CommaTotalLine, 1))
    /\ pdf_extraction_result.data.invoice_amount = Money(66200)
    /\ "amount_excluding_tax" \notin DOMAIN pdf_extraction_result.data

\* the percentage tokens of the text s as re.findall gives them, by the
\* position of their percent sign: of the numbers that end at one percent
\* sign the leftmost start is the match
RateTokenEnding(s, e) ==
    FirstOf([p \in 1..e |->
                IF TaxRateAt(s, p) # NoMatch /\ p + Len(TaxRateAt(s, p)) = e
                THEN TaxRateAt(s, p) ELSE NoMatch], NoMatch)

\* the first token of s whose value lies in 0..100, NoMatch when none does
FirstTokenInRange(s) ==
    FirstOf([e \in 1..Len(s) |->
                LET token == RateTokenEnding(s, e)
                IN  IF token # NoMatch /\ ParseFloat(token) # Huge
                       /\ ParseFloat(token) <= MaxTaxRate * One
                    THEN token ELSE NoMatch], NoMatch)

\* the first token in the range in document order: the blocks in their
\* order, then the fallback text
FirstTokenOfDocument ==
    LET in_blocks == FirstOf([n \in 1..Len(text_blocks) |->
                                 FirstTokenInRange(text_blocks[n])], NoMatch)
    IN  IF in_blocks # NoMatch THEN in_blocks ELSE FirstTokenInRange(search_text)

\* some token of the document lies outside the range
SomeTokenOutOfRange ==
    \E t \in Texts : \E e \in 1..Len(t) :
        /\ RateTokenEnding(t, e) # NoMatch
        /\ \/ ParseFloat(RateTokenEnding(t, e)) = Huge
           \/ ParseFloat(RateTokenEnding(t, e)) > MaxTaxRate * One

\* C23: in every result without an error tax_rate is NaN or a number from 0
\* to 100, both included; when the rate is searched (no ticket fare fixed
\* it), it is the value of the first percentage token in document order
\* whose value lies in that range, tokens outside it being passed over, and
\* NaN when there is no such token.
C23_RateInRange ==
    Extraction
    => /\ "tax_rate" \in DOMAIN pdf_extraction_result.data
       /\ LET tax_rate == pdf_extraction_result.data.tax_rate
          IN  /\ tax_rate = NaN \/ (tax_rate >= 0 /\ tax_rate <= MaxTaxRate * One)
              /\ ~is_piao_jia_format
                 => tax_rate = IF FirstTokenOfDocument = NoMatch THEN NaN
                               ELSE ParseFloat(FirstTokenOfDocument)

\* C23 happens: 150% stands alone in the first block and before 6% in the
\* second; the rate returned is 6
C23_Witness ==
    /\ Returned
    /\ Extraction
    /\ text_blocks = <<PercentLine(<<"1", "5", "0">>), TwoPercentLine>>
    /\ SomeTokenOutOfRange
    /\ ~is_piao_jia_format
    /\ pdf_extraction_result.data.tax_rate = 6 * One

\* the digit runs that follow the label in the text t: the label, colons or
\* blanks, and then all the digits up to the first character that is none
RunsAfterLabel(t) ==
    {CaptureDigits(t, AfterLabelSep(t, i, "FPHM")) :
        i \in {p \in 1..Len(t) : AfterLabelSep(t, p, "FPHM") # 0}} \ {<<>>}

\* C24: whenever an invoice number is returned, it is a whole digit run that
\* follows the label in a block or in the text of all the blocks, and it has
\* 8 to 25 digits: never the first digits of a longer run, never fewer than 8.
C24_CompleteRun ==
    (Extraction /\ "invoice_number" \in DOMAIN pdf_extraction_result.data)
    => /\ Len(pdf_extraction_result.data.invoice_number)
            \in MinInvoiceDigits..MaxInvoiceDigits
       /\ \E t \in Texts : pdf_extraction_result.data.invoice_number \in RunsAfterLabel(t)

\* C24 fails: the only block is the label, the colon and a run of 26 digits;
\* the number returned is the first 25 digits of the run, which is no run of
\* the text
C24_RunCutShort ==
    /\ Returned
    /\ Extraction
    /\ text_blocks = <<NumberLine(TooLongNumber)>>
    /\ RunsAfterLabel(search_text) = {TooLongNumber}
    /\ "invoice_number" \in DOMAIN pdf_extraction_result.data
    /\ pdf_extraction_result.data.invoice_number = LongNumber

\* process_excel has written result_df from the rows of df
Processed == df # <<>> /\ pc \notin {"process", "exit"}

\* the invoice-number values of the input rows, an empty cell being the
\* empty value
NumbersOf(rows) == {IF rows[i].D = NaNCell THEN <<>> ELSE rows[i].D : i \in 1..Len(rows)}

\* the sum of the numbers among the cells, in any order
RECURSIVE Total(_, _)
Total(cells, among) ==
    IF among = {} THEN 0
    ELSE LET i == CHOOSE k \in among : TRUE
         IN  (IF cells[i] \in {NaN, TextCell} THEN 0 ELSE cells[i])
             + Total(cells, among \ {i})
TotalOf(cells) == Total(cells, DOMAIN cells)

\* C25: after process_excel has grouped the input rows by the invoice number
\* of column D, the output holds exactly one row for each distinct value of
\* the invoice number, and the sums of the amount excluding tax (Q), of the
\* tax amount (S) and of the invoice amount (T) over the output rows equal
\* the sums over the input rows.
C25_OneRowPerNumberSumsKept ==
    Processed
    => /\ Len(result_df) = Cardinality(NumbersOf(df))
       /\ \A number \in NumbersOf(df) :
             \E n \in 1..Len(result_df) :
                /\ number = (IF result_df[n].invoice_number = NaNCell THEN <<>>
                             ELSE result_df[n].invoice_number)
                /\ \A m \in 1..Len(result_df) :
                      result_df[m].invoice_number = result_df[n].invoice_number => m = n
       /\ TotalOf([n \in 1..Len(result_df) |-> result_df[n].amount_excluding_tax])
            = TotalOf([i \in 1..Len(df) |-> df[i].Q])
       /\ TotalOf([n \in 1..Len(result_df) |-> result_df[n].tax_amount])
            = TotalOf([i \in 1..Len(df) |-> df[i].S])
       /\ TotalOf([n \in 1..Len(result_df) |-> result_df[n].invoice_amount])
            = TotalOf([i \in 1..Len(df) |-> df[i].T])

\* C25 happens: two input rows carry the same invoice number with amounts
\* 64.28 and 1.00 excluding tax; the output is one row whose amounts are the
\* sums
C25_Witness ==
    /\ Processed
    /\ pc = "done"
    /\ df = <<ExcelRow(GoodNumber, Money(64280), Money(1920), Money(66200)),
              ExcelRow(GoodNumber, Money(1000), Money(30), Money(1030))>>
    /\ Len(result_df) = 1
    /\ result_df[1].invoice_number = GoodNumber
    /\ result_df[1].amount_excluding_tax = Money(65280)
    /\ result_df[1].tax_amount = Money(1950)
    /\ result_df[1].invoice_amount = Money(67230)

\* the names missing_fields may hold: the tax rate and the tax amount have
\* defaults and are never reported
MayBeMissing ==
    {field_names.invoice_number, field_names.invoice_amount,
     field_names.amount_excluding_tax, field_names.invoice_date}

Agrees(key) ==
    \/ LastRow[key] = NaN
    \/ key \notin DOMAIN pdf_extraction_result.data
    \/ ~Apart(LastRow[key], pdf_extraction_result.data[key])

\* C27: when the invoice amount, or the amount excluding tax, is among the
\* missing fields of the PDF, the verifier records a discrepancy for it,
\* whether the cell of the row holds a value or is blank; so every MATCH row
\* has only the invoice number and the invoice date among its missing fields,
\* and the absence of these two records nothing: a row whose amounts and rate
\* agree with the PDF is MATCH whether or not they are missing.
C27_MissingAmountIsDiscrepancy ==
    Compared
    => /\ \A key \in {"invoice_amount", "amount_excluding_tax"} :
             InList(field_names[key], pdf_extraction_result.missing_fields)
             => HasDiscrepancy(LastEntry, field_names[key])
       /\ LastEntry.status = "MATCH"
          => \A k \in 1..Len(LastEntry.missing_fields) :
                LastEntry.missing_fields[k]
                  \in {field_names.invoice_number, field_names.invoice_date}
       /\ ~HasDiscrepancy(LastEntry, field_names.invoice_date)
       /\ "invoice_number" \notin DOMAIN pdf_extraction_result.data
          => ~HasDiscrepancy(LastEntry, field_names.invoice_number)
       /\ (/\ \A key \in {"invoice_amount", "amount_excluding_tax", "tax_amount"} :
                 /\ Agrees(key)
                 /\ ~InList(field_names[key], pdf_extraction_result.missing_fields)
           /\ Agrees("tax_rate") \/ pdf_extraction_result.data.tax_rate = NaN
           /\ \/ "invoice_number" \notin DOMAIN pdf_extraction_result.data
              \/ pdf_extraction_result.data.invoice_number = Strip(LastRow.invoice_number))
          => LastEntry.status = "MATCH"

\* C27 happens: the PDF gives no invoice amount and no amount excluding tax,
\* the cells of the row are blank, and the row is MISMATCH with a discrepancy
\* for each of the two
C27_Witness ==
    /\ Compared
    /\ LastRow.invoice_amount = NaN
    /\ LastRow.amount_excluding_tax = NaN
    /\ InList(field_names.invoice_amount, pdf_extraction_result.missing_fields)
    /\ InList(field_names.amount_excluding_tax, pdf_extraction_result.missing_fields)
    /\ HasDiscrepancy(LastEntry, field_names.invoice_amount)
    /\ HasDiscrepancy(LastEntry, field_names.amount_excluding_tax)
    /\ LastEntry.status = "MISMATCH"

\* the blocks that hold jia shui he ji and xiao xie and a currency figure
\* that a pattern of the invoice amount captures
TotalBlocks ==
    {n \in 1..Len(text_blocks) :
        /\ Contains(text_blocks[n], <<"JSHJ">>)
        /\ Contains(text_blocks[n], <<"XIAO", "XIE">>)
        /\ \E k \in 1..NumAmountPatterns :
              Converts(SearchAmountFrom(k, text_blocks[n], 1))}

\* C28: the ticket-fare scan goes over all the blocks before any pattern of
\* jia shui he ji is tried: when some block gives a ticket fare that
\* converts, the invoice amount is the fare of the first such block, even
\* when a block before it holds jia shui he ji, xiao xie and another figure;
\* the patterns of jia shui he ji give the amount only when no block gave a
\* fare.
C28_TicketFareFirst ==
    Extraction
    => /\ TicketBlocks # {}
          => /\ is_piao_jia_format
             /\ "invoice_amount" \in DOMAIN pdf_extraction_result.data
             /\ pdf_extraction_result.data.invoice_amount = FirstTicketFare
       /\ TicketBlocks = {}
          => /\ ~is_piao_jia_format
             /\ ReturnedAsNumber("invoice_amount", AmountOfSearch)

\* C28 happens: the first block is the total 66.20 after jia shui he ji and
\* xiao xie, the second the ticket fare 58; the invoice amount returned is 58
C28_Witness ==
    /\ Returned
    /\ Extraction
    /\ text_blocks = <<TotalLine, TicketLine(<<"5", "8">>)>>
    /\ TotalBlocks = {1}
    /\ TicketBlocks = {2}
    /\ pdf_extraction_result.data.invoice_amount = Fare(58)

\* C29: when the amount excluding tax and the tax amount are both read from
\* one subtotal block, they are read from two currency figures of the block,
\* the first and the second that stand after the subtotal label: never both
\* from the same figure, as when the first currency sign after the label has
\* no digits after it.
C29_TwoFigures ==
    (Extraction /\ ~is_piao_jia_format /\ ExclTaxBlock # 0 /\ ExclTaxBlock = TaxAmountBlock)
    => LET block == text_blocks[ExclTaxBlock]
       IN  \E i, j \in FiguresBeforeTotal(block) :
              /\ i < j
              /\ \A k \in FiguresBeforeTotal(block) : k >= i /\ (k > i => k >= j)
              /\ pdf_extraction_result.data.amount_excluding_tax
                   = ParseFloat(RemoveCommas(YuanAmountAt(block, i)))
              /\ pdf_extraction_result.data.tax_amount
                   = ParseFloat(RemoveCommas(YuanAmountAt(block, j)))

\* C29 fails: the only block is the subtotal label, a currency sign alone and
\* the one figure 1.92; the amount excluding tax and the tax amount returned
\* are both 1.92, read from that one figure
C29_OneFigureReadTwice ==
    /\ Returned
    /\ Extraction
    /\ text_blocks = <<LoneSignSubtotalLine>>
    /\ Cardinality(FiguresBeforeTotal(text_blocks[1])) = 1
    /\ ExclTaxBlock = 1
    /\ TaxAmountBlock = 1
    /\ pdf_extraction_result.data.amount_excluding_tax = Money(1920)
    /\ pdf_extraction_result.data.tax_amount = Money(1920)

\* the extractor returned an invoice number for the last row
NumberExtracted == "invoice_number" \in DOMAIN pdf_extraction_result.data

\* C30: a MATCH row for which the extractor returned an invoice number has
\* that number equal, character by character, to the number of the row with
\* its surrounding blanks removed, also when the file was found by the
\* prefix, the suffix or the contains shape of its name; a row whose PDF
\* gives another number is MISMATCH; a PDF that gives no number adds no
\* discrepancy of the invoice number.
C30_MatchMeansSameNumber ==
    Compared
    => /\ (LastEntry.status = "MATCH" /\ NumberExtracted)
          => pdf_extraction_result.data.invoice_number = Strip(LastRow.invoice_number)
       /\ (NumberExtracted
             /\ pdf_extraction_result.data.invoice_number # Strip(LastRow.invoice_number))
          => /\ LastEntry.status = "MISMATCH"
             /\ HasDiscrepancy(LastEntry, field_names.invoice_number)
       /\ ~NumberExtracted => ~HasDiscrepancy(LastEntry, field_names.invoice_number)

\* C30 happens: no file is named after the number alone; the row's file is
\* found by the prefix shape, its text holds the number of the row, and the
\* row is MATCH
C30_Witness ==
    /\ Compared
    /\ \A f \in Searched : f.name # Strip(LastRow.invoice_number)
    /\ pdf_path.name = GoodNumber \o <<"USCORE", "1">>
    /\ NumberExtracted
    /\ pdf_extraction_result.data.invoice_number = Strip(LastRow.invoice_number)
    /\ LastEntry.status = "MATCH"

====
